---- MODULE Spec2Model ----
(***************************************************************************)
(* Fasten webhook service: the webhook endpoint, the event dispatcher and  *)
(* its handlers, the export trigger, the export timeout monitor and the    *)
(* store of normalized records.                                            *)
(*                                                                         *)
(* The service runs on one JavaScript event loop.  A request handler runs  *)
(* without interruption up to an await on I/O (the provider call of the    *)
(* export trigger, the bulk download); there another request, a timer or   *)
(* the completion of another I/O may run.  Each action below is one such   *)
(* uninterrupted run.  An await on a promise that is already settled only  *)
(* defers to the microtask queue, which drains before any other request or *)
(* timer runs, so it is not a point of interleaving.                       *)
(*                                                                         *)
(* Timestamps are logical: the time of anything a request does is its      *)
(* delivery number, and a timeout fires at the time it was scheduled for.  *)
(***************************************************************************)
EXTENDS Integers, Sequences, FiniteSets, TLC

\* ---------------------------------------------------------------- bounds

\* Number of requests delivered to POST /webhook/fasten in one behaviour.
MaxDeliveries == 3

\* Number of characters of a text that streamProcessFHIR downloads.
MaxText == 6

\* Number of cache ticks that pass in one behaviour.
MaxTime == 5

\* ------------------------------------------------------ program constants

MaxRetries == 3
HISTORY_LIMIT == 100
StatusOk == 200
StatusUnauthorized == 401
\* EXPORT_TIMEOUT, in minutes
EXPORT_TIMEOUT == 30
\* OPTIMIZATION_CONFIG.processing.batchSize
DefaultBatchSize == 100
\* OPTIMIZATION_CONFIG.foundry.cacheTTLMs, in cache ticks of 100 seconds
CacheTTL == 3

\* ----------------------------------------------------------- input values

Conns == {"c1", "c2"}
Users == {"u1", "u2"}
EventIds == {"e1"}
Platforms == {"epic"}
OtherPlatforms == {"cerner"}

NoConn == "no_conn"
NoUser == "no_user"
NoId == "no_id"
NoTime == 0
NoObj == 0
NoText == "none"
None == [absent |-> TRUE]

ExportSuccessType == "patient.ehi_export_success"
ExportFailedType == "patient.ehi_export_failed"
ConnectionSuccessType == "patient.connection_success"
AuthorizationRevokedType == "patient.authorization_revoked"
WebhookTestType == "webhook.test"
OtherType == "patient.other_event"

DataTypes ==
  {ExportSuccessType, ExportFailedType, ConnectionSuccessType, AuthorizationRevokedType}

\* The body of a request: {id?, type, data}.  hasData = FALSE is a body with
\* no data member.  data carries org_connection_id, external_id,
\* platform_type and connection_status as the event type defines them.
MkBody(type, id, hasData, conn, user, platform, cstatus) ==
  [type |-> type, id |-> id, hasData |-> hasData, conn |-> conn, user |-> user,
   platform |-> platform, connection_status |-> cstatus]

\* The events about connections `conns` and users `users`, with the event
\* ids `ids`.
ConnectionEvents(conns, users, ids) ==
       {MkBody(ConnectionSuccessType, id, TRUE, c, u, p, "authorized") :
          id \in ids, c \in conns, u \in users, p \in Platforms}
  \cup {MkBody(t, id, TRUE, c, NoUser, NoText, NoText) :
          t \in {ExportSuccessType, ExportFailedType}, id \in ids, c \in conns}
  \cup {MkBody(AuthorizationRevokedType, id, TRUE, c, NoUser, NoText, "revoked") :
          id \in ids, c \in conns}

\* An event whose body has no data, a test event and an event of a type the
\* service does not know.
OtherEvents(ids) ==
       {MkBody(ExportFailedType, id, FALSE, NoConn, NoUser, NoText, NoText) : id \in ids}
  \cup {MkBody(WebhookTestType, id, TRUE, NoConn, NoUser, NoText, NoText) : id \in ids}
  \cup {MkBody(OtherType, id, TRUE, NoConn, NoUser, NoText, NoText) : id \in ids}

\* connection_success events of connections made on `platforms`.
ConnectionsOn(platforms, conns, users, ids) ==
  {MkBody(ConnectionSuccessType, id, TRUE, c, u, p, "authorized") :
     id \in ids, c \in conns, u \in users, p \in platforms}

\* authorization_revoked events whose data carries no connection_status.
UnstatedRevokes(conns, ids) ==
  {MkBody(AuthorizationRevokedType, id, TRUE, c, NoUser, NoText, NoText) :
     id \in ids, c \in conns}

AllBodies ==
       ConnectionEvents(Conns, Users \cup {NoUser}, EventIds \cup {NoId})
  \cup OtherEvents(EventIds \cup {NoId})
  \cup ConnectionsOn(OtherPlatforms, Conns, Users \cup {NoUser}, EventIds \cup {NoId})
  \cup UnstatedRevokes(Conns, EventIds \cup {NoId})

\* The events the provider sends in the behaviours of Spec: the events about
\* connection c1 of user u1 with and without an event id, a connection of no
\* user, a body without data that is redelivered, a test event and an event
\* of an unknown type.
Bodies ==
       ConnectionEvents({"c1"}, {"u1"}, EventIds \cup {NoId})
  \cup {MkBody(ConnectionSuccessType, NoId, TRUE, "c1", NoUser, "epic", "authorized"),
        MkBody(ExportFailedType, "e1", FALSE, NoConn, NoUser, NoText, NoText),
        MkBody(WebhookTestType, NoId, TRUE, NoConn, NoUser, NoText, NoText),
        MkBody(OtherType, NoId, TRUE, NoConn, NoUser, NoText, NoText)}

\* The events of SpecRetry: connections made and revoked.
TriggerBodies ==
  {b \in ConnectionEvents({"c1"}, {"u1"}, EventIds \cup {NoId}) :
     b.type \in {ConnectionSuccessType, AuthorizationRevokedType}}

\* Lines of a bulk export payload (newline-delimited JSON).
PatientLine == [kind |-> "json", resourceType |-> "Patient", id |-> "p1"]
ObservationLine == [kind |-> "json", resourceType |-> "Observation", id |-> "o1"]
BadLine == [kind |-> "malformed", resourceType |-> NoText, id |-> NoText]
BlankLine == [kind |-> "blank", resourceType |-> NoText, id |-> NoText]

Payloads == {<<PatientLine, BadLine, BlankLine, ObservationLine>>}

\* The payloads a download may return: also one of two Patient and one
\* Observation, an empty one and one with no valid line.
AllPayloads ==
  Payloads \cup {<<PatientLine, PatientLine, ObservationLine>>, <<>>, <<BadLine, BlankLine>>}

\* What the provider answers to one export request.
ProviderOutcomes == {"ok_task", "ok_empty", "retryable", "fatal", "throw"}

\* ---------------------------------------------------------------- state

VARIABLES
  secret,                \* FASTEN_WEBHOOK_SECRET is set
  configured,            \* FASTEN_CONFIGURED
  reqs,                  \* the requests delivered so far, in order of arrival
  webhookEvents,         \* archive of raw events, in insertion order
  processedEventIds,
  connectionExports,     \* org_connection_id -> export data
  connectionStatus,      \* org_connection_id -> connection object
  heap,                  \* connection objects, by the delivery that made them
  userConnections,       \* external_id -> set of org_connection_id
  userExports,           \* external_id -> org_connection_id -> export data
  pendingExportRequests,
  connectionTimeouts,    \* diagnostics: org_connection_id -> timeout info
  timers,                \* timeouts scheduled and neither cleared nor fired
  healthChecks,          \* diagnostics: org_connection_id -> health check
  foundryDataStore,      \* external_id -> records
  ingestionHistory,
  now,                   \* Date.now() as the record cache reads it, in cache ticks
  foundryCache,          \* FoundryCache: key -> {value, timestamp}
  lastGet,               \* what the last FoundryCache.get returned
  lastRead,              \* what the last GET /api/foundry/data answered
  stream,                \* one run of streamProcessFHIR
  fetchRun               \* one run of authorizedFastenFetch

vars ==
  <<secret, configured, reqs, webhookEvents, processedEventIds, connectionExports,
    connectionStatus, heap, userConnections, userExports, pendingExportRequests,
    connectionTimeouts, timers, healthChecks, foundryDataStore, ingestionHistory,
    now, foundryCache, lastGet, lastRead, stream, fetchRun>>

registryVars == <<connectionExports, connectionStatus, heap, userConnections, userExports>>
monitorVars == <<connectionTimeouts, timers, healthChecks>>
recordVars == <<foundryDataStore, ingestionHistory>>
triggerVars == <<pendingExportRequests>>
cacheVars == <<now, foundryCache, lastGet, lastRead>>
\* What no webhook handler and no completion of its I/O changes: the
\* configuration, the record cache and its clock, and the runs of
\* streamProcessFHIR and authorizedFastenFetch that are followed on their own.
runVars == <<stream, fetchRun>>
envVars == <<secret, configured, cacheVars, runVars>>

CacheKeys == {"foundry-data-all"}

\* No streaming run.
StreamIdle ==
  [text |-> <<>>, pos |-> 0, buffer |-> <<>>, processedRecords |-> <<>>,
   batchSize |-> 0, pc |-> "idle"]

\* No run of authorizedFastenFetch.
FetchIdle == [attempt |-> 0, calls |-> <<>>, pc |-> "idle"]

InitCache ==
  /\ now = 0
  /\ foundryCache = [k \in CacheKeys |-> None]
  /\ lastGet = None
  /\ lastRead = None

InitService ==
  /\ secret \in BOOLEAN
  /\ configured \in BOOLEAN
  /\ reqs = <<>>
  /\ webhookEvents = <<>>
  /\ processedEventIds = {}
  /\ connectionExports = [c \in Conns |-> None]
  /\ connectionStatus = [c \in Conns |-> NoObj]
  /\ heap = [i \in 1..MaxDeliveries |-> None]
  /\ userConnections = [u \in Users |-> {}]
  /\ userExports = [u \in Users |-> [c \in Conns |-> None]]
  /\ pendingExportRequests = {}
  /\ connectionTimeouts = [c \in Conns |-> None]
  /\ timers = {}
  /\ healthChecks = [c \in Conns |-> None]
  /\ foundryDataStore = [u \in Users |-> <<>>]
  /\ ingestionHistory = <<>>

Init ==
  /\ InitService
  /\ InitCache
  /\ stream = StreamIdle
  /\ fetchRun = FetchIdle

\* ------------------------------------------------- POST /webhook/fasten

\* Whether the provider signs its requests: it does when a signing secret is
\* set up for the webhook; the signature of a signed request may be wrong.
SigInputs == IF secret THEN BOOLEAN ELSE {FALSE}

\* A verifier that accepts every signature.
VerifyAnySignature(sigValid, sec) ==
  IF ~sec THEN FALSE ELSE TRUE

VerifyWebhookSignature(sigValid, sec) ==
  IF ~sec THEN FALSE ELSE sigValid

SignatureRejected(sigValid, sec) ==
  sec /\ ~VerifyWebhookSignature(sigValid, sec)

NewRequest(body, sigValid) ==
  [body |-> body, sigValid |-> sigValid, pc |-> "done", response |-> StatusOk,
   routed |-> FALSE, outcome |-> "returned", attempt |-> 0, data |-> NoObj,
   user |-> NoUser]

RejectedRequest ==
  [body |-> None, sigValid |-> FALSE, pc |-> "done", response |-> StatusUnauthorized,
   routed |-> FALSE, outcome |-> "none", attempt |-> 0, data |-> NoObj, user |-> NoUser]

\* The archive keyed by the event id of the body instead of a fresh id: a
\* redelivery finds the entry of the first delivery and adds none.
StoreRawEventOncePerId(events, n, body) ==
  IF body.id # NoId /\ \E k \in DOMAIN events : events[k].body.id = body.id
  THEN events
  ELSE Append(events, [id |-> n, timestamp |-> n, body |-> body, processed |-> FALSE,
                       error |-> NoText])

StoreRawEvent(events, n, body) ==
  Append(events, [id |-> n, timestamp |-> n, body |-> body, processed |-> FALSE,
                  error |-> NoText])

ErrNoData == "Cannot destructure property of undefined"

\* try { await processWebhookEvent(); event.processed = true }
\* catch (error) { event.error = error.message }
RecordOutcome(event, outcome) ==
  IF outcome = "raised" THEN [event EXCEPT !.error = ErrNoData]
  ELSE [event EXCEPT !.processed = TRUE]

SetOutcome(events, n, outcome) ==
  [i \in DOMAIN events |->
     IF events[i].id = n THEN RecordOutcome(events[i], outcome) ELSE events[i]]

\* A handler error answered with a server error.
AckStatusFailing(outcome) == IF outcome = "raised" THEN 500 ELSE StatusOk

\* The response sent once processWebhookEvent has returned or raised.
AckStatus(outcome) == StatusOk

\* ------------------------------------------------- processWebhookEvent

\* No duplicate check at all.
IsDuplicateNever(id, seen) == FALSE

IsDuplicate(id, seen) == id # NoId /\ id \in seen

\* No mark is kept.
MarkSeenNever(id, seen) == seen

\* The mark without the test that the event has an id.
MarkSeenAlways(id, seen) == seen \cup {id}

MarkSeen(id, seen) == IF id # NoId THEN seen \cup {id} ELSE seen

HandlerFor(type) ==
  CASE type = ExportSuccessType -> "handleExportSuccess"
    [] type = ExportFailedType -> "handleExportFailed"
    [] type = ConnectionSuccessType -> "handleConnectionSuccess"
    [] type = AuthorizationRevokedType -> "handleAuthorizationRevoked"
    [] type = WebhookTestType -> "handleWebhookTest"
    [] OTHER -> "default"

\* A default branch that throws on an unknown type.
HandlerRaisesOnUnknown(handler, body) ==
  \/ handler = "default"
  \/ /\ handler \in {"handleExportSuccess", "handleExportFailed",
                      "handleConnectionSuccess", "handleAuthorizationRevoked"}
     /\ ~body.hasData

\* The handlers that destructure data raise a TypeError when the body has no
\* data; handleWebhookTest and the default branch do not read it.
HandlerRaises(handler, body) ==
  /\ handler \in {"handleExportSuccess", "handleExportFailed", "handleConnectionSuccess",
                  "handleAuthorizationRevoked"}
  /\ ~body.hasData

\* A request that passes verification and the duplicate check and goes to
\* `handler`; n is its number, its event id and its timestamp.
Routed(body, sigValid, handler) ==
  /\ Len(reqs) < MaxDeliveries
  /\ body \in AllBodies
  /\ sigValid \in SigInputs
  /\ ~SignatureRejected(sigValid, secret)
  /\ ~IsDuplicate(body.id, processedEventIds)
  /\ HandlerFor(body.type) = handler
  /\ processedEventIds' = MarkSeen(body.id, processedEventIds)

\* The request ends in this run: outcome recorded, response sent.
Complete(body, sigValid, routed, outcome) ==
  LET n == Len(reqs) + 1 IN
  /\ reqs' = Append(reqs, [NewRequest(body, sigValid) EXCEPT
                             !.routed = routed, !.outcome = outcome,
                             !.response = AckStatus(outcome)])
  /\ webhookEvents' = SetOutcome(StoreRawEvent(webhookEvents, n, body), n, outcome)

\* The request waits on I/O at `pc`.
Suspend(body, sigValid, pc, data, user) ==
  LET n == Len(reqs) + 1 IN
  /\ reqs' = Append(reqs, [NewRequest(body, sigValid) EXCEPT
                             !.routed = TRUE, !.outcome = "none", !.pc = pc,
                             !.response = 0, !.attempt = 1, !.data = data,
                             !.user = user])
  /\ webhookEvents' = StoreRawEvent(webhookEvents, n, body)

ReceiveRejected(body, sigValid) ==
  /\ Len(reqs) < MaxDeliveries
  /\ body \in AllBodies
  /\ sigValid \in SigInputs
  /\ SignatureRejected(sigValid, secret)
  /\ reqs' = Append(reqs, RejectedRequest)
  /\ UNCHANGED <<webhookEvents, processedEventIds, registryVars, monitorVars,
                 recordVars, triggerVars, envVars>>

ReceiveDuplicate(body, sigValid) ==
  /\ Len(reqs) < MaxDeliveries
  /\ body \in AllBodies
  /\ sigValid \in SigInputs
  /\ ~SignatureRejected(sigValid, secret)
  /\ IsDuplicate(body.id, processedEventIds)
  /\ Complete(body, sigValid, FALSE, "returned")
  /\ UNCHANGED <<processedEventIds, registryVars, monitorVars, recordVars,
                 triggerVars, envVars>>

ReceiveRaising(body, sigValid) ==
  /\ Routed(body, sigValid, HandlerFor(body.type))
  /\ HandlerRaises(HandlerFor(body.type), body)
  /\ Complete(body, sigValid, TRUE, "raised")
  /\ UNCHANGED <<registryVars, monitorVars, recordVars, triggerVars, envVars>>

ReceiveWebhookTest(body, sigValid) ==
  /\ Routed(body, sigValid, "handleWebhookTest")
  /\ ~HandlerRaises("handleWebhookTest", body)
  /\ Complete(body, sigValid, TRUE, "returned")
  /\ UNCHANGED <<registryVars, monitorVars, recordVars, triggerVars, envVars>>

ReceiveUnknown(body, sigValid) ==
  /\ Routed(body, sigValid, "default")
  /\ ~HandlerRaises("default", body)
  /\ Complete(body, sigValid, TRUE, "returned")
  /\ UNCHANGED <<registryVars, monitorVars, recordVars, triggerVars, envVars>>

\* ------------------------------------------------- WebhookDiagnostics

\* The delay startExportMonitoring passes to setTimeout for a connection of
\* `platform`: this.EXPORT_TIMEOUT, which the constructor sets once.
ExportTimeoutFor(platform) == EXPORT_TIMEOUT

\* startExportMonitoring: the timeout of delivery n is scheduled and the entry
\* of the connection is replaced; a timeout scheduled earlier is not cleared.
MonitorEntry(n) ==
  [timeoutId |-> n, startedAt |-> n, connectionData |-> n, status |-> "monitoring",
   timedOutAt |-> NoTime]

StartExportMonitoring(timeouts, c, n) == [timeouts EXCEPT ![c] = MonitorEntry(n)]

\* A stop that makes a completed entry for a connection that has none.
StopExportMonitoringCreating(timeouts, c) ==
  [timeouts EXCEPT ![c] =
     IF @ # None THEN [@ EXCEPT !.status = "completed"]
     ELSE [timeoutId |-> NoTime, startedAt |-> NoTime, connectionData |-> NoObj,
           status |-> "completed", timedOutAt |-> NoTime]]

\* stopExportMonitoring: clearTimeout and status 'completed', if there is an entry.
StopExportMonitoring(timeouts, c) ==
  IF timeouts[c] # None THEN [timeouts EXCEPT ![c].status = "completed"] ELSE timeouts

ClearTimeoutOf(pending, timeouts, c) ==
  IF timeouts[c] # None THEN pending \ {timeouts[c].timeoutId} ELSE pending

\* A timeout handler that forgets the entry of the connection.
MarkTimedOutRemoving(timeouts, c, t) == [timeouts EXCEPT ![c] = None]

\* handleExportTimeout: the entry of the connection, if there is one, gets
\* status 'timed_out' and the time.
MarkTimedOut(timeouts, c, t) ==
  IF timeouts[c] # None
  THEN [timeouts EXCEPT ![c].status = "timed_out", ![c].timedOutAt = t]
  ELSE timeouts

\* handleExportTimeout with logDiagnosticInfo and probeConnectionHealth; the
\* timeout t was scheduled by delivery t for that delivery's connection and
\* connection object.
TimeoutFires(t) ==
  /\ t \in timers
  /\ LET c == reqs[t].body.conn IN
     /\ timers' = timers \ {t}
     /\ connectionTimeouts' = MarkTimedOut(connectionTimeouts, c, t)
     /\ healthChecks' = [healthChecks EXCEPT ![c] =
          [checkedAt |-> t, status |-> "timeout_detected", connectionData |-> t]]
  /\ UNCHANGED <<reqs, webhookEvents, processedEventIds, registryVars, recordVars,
                 triggerVars, envVars>>

\* getStats: the number of entries, the number of entries in each status and
\* the number of health checks.
WithStatus(timeouts, status) ==
  Cardinality({c \in DOMAIN timeouts : timeouts[c] # None /\ timeouts[c].status = status})

GetStats(timeouts, checks) ==
  [totalConnections |-> Cardinality({c \in DOMAIN timeouts : timeouts[c] # None}),
   activeMonitoring |-> WithStatus(timeouts, "monitoring"),
   timedOut |-> WithStatus(timeouts, "timed_out"),
   completed |-> WithStatus(timeouts, "completed"),
   healthChecks |-> Cardinality({c \in DOMAIN checks : checks[c] # None})]

\* ------------------------------------------------- export event handlers

DownloadLink == "D"
FailureReason == "provider_error"

ExportSuccessData(n) ==
  [status |-> "success", downloadLink |-> DownloadLink, failureReason |-> NoText,
   timestamp |-> n]

\* An export_failed recorded with the status of a success.
ExportFailedDataAsSuccess(n) ==
  [status |-> "success", downloadLink |-> NoText, failureReason |-> FailureReason,
   timestamp |-> n]

\* A failure record that carries a download link.
ExportFailedDataWithLink(n) ==
  [status |-> "failed", downloadLink |-> DownloadLink, failureReason |-> FailureReason,
   timestamp |-> n]

ExportFailedData(n) ==
  [status |-> "failed", downloadLink |-> NoText, failureReason |-> FailureReason,
   timestamp |-> n]

ApplyExportSuccess(connection, n) ==
  [connection EXCEPT !.lastExportSuccess = n, !.exportStatus = "success"]

ApplyExportFailed(connection, n) ==
  [connection EXCEPT !.lastExportFailure = n, !.exportStatus = "failed",
                     !.failureReason = FailureReason]

\* The owner recorded on the connection stored for c, if any.
ExternalIdOf(c) ==
  IF connectionStatus[c] # NoObj THEN heap[connectionStatus[c]].externalId ELSE NoUser

ReceiveExportSuccess(body, sigValid) ==
  /\ Routed(body, sigValid, "handleExportSuccess")
  /\ ~HandlerRaises("handleExportSuccess", body)
  /\ LET n == Len(reqs) + 1
         c == body.conn
         obj == connectionStatus[c]
         ext == ExternalIdOf(c)
     IN
     /\ connectionExports' = [connectionExports EXCEPT ![c] = ExportSuccessData(n)]
     /\ timers' = ClearTimeoutOf(timers, connectionTimeouts, c)
     /\ connectionTimeouts' = StopExportMonitoring(connectionTimeouts, c)
     /\ heap' = IF obj # NoObj
                THEN [heap EXCEPT ![obj] = ApplyExportSuccess(@, n)]
                ELSE heap
     /\ userExports' = IF obj # NoObj /\ ext # NoUser
                       THEN [userExports EXCEPT ![ext][c] = ExportSuccessData(n)]
                       ELSE userExports
        \* downloadAndProcessFHIR throws at once without credentials, and
        \* the handler catches it
     /\ IF obj # NoObj /\ ext # NoUser /\ configured
        THEN Suspend(body, sigValid, "download", NoObj, ext)
        ELSE Complete(body, sigValid, TRUE, "returned")
  /\ UNCHANGED <<connectionStatus, userConnections, healthChecks, recordVars,
                 triggerVars, envVars>>

ReceiveExportFailed(body, sigValid) ==
  /\ Routed(body, sigValid, "handleExportFailed")
  /\ ~HandlerRaises("handleExportFailed", body)
  /\ LET n == Len(reqs) + 1
         c == body.conn
         obj == connectionStatus[c]
         ext == ExternalIdOf(c)
     IN
     /\ timers' = ClearTimeoutOf(timers, connectionTimeouts, c)
     /\ connectionTimeouts' = StopExportMonitoring(connectionTimeouts, c)
     /\ connectionExports' = [connectionExports EXCEPT ![c] = ExportFailedData(n)]
     /\ heap' = IF obj # NoObj
                THEN [heap EXCEPT ![obj] = ApplyExportFailed(@, n)]
                ELSE heap
     /\ userExports' = IF obj # NoObj /\ ext # NoUser
                       THEN [userExports EXCEPT ![ext][c] = ExportFailedData(n)]
                       ELSE userExports
     /\ Complete(body, sigValid, TRUE, "returned")
  /\ UNCHANGED <<connectionStatus, userConnections, healthChecks, recordVars,
                 triggerVars, envVars>>

\* ------------------------------------------------- connection handlers

ConnectionData(body, n) ==
  [connectionStatus |-> body.connection_status, platformType |-> body.platform,
   externalId |-> body.user, connectedAt |-> n, exportStatus |-> "pending",
   revokedAt |-> NoTime, lastExportSuccess |-> NoTime, lastExportFailure |-> NoTime,
   failureReason |-> NoText, exportError |-> NoText, lastExportRequested |-> NoTime,
   pendingTaskId |-> NoText]

\* An index update that adds the connection to the set of every user.
AddUserConnectionToAll(index, user, c) ==
  [u \in DOMAIN index |-> index[u] \cup {c}]

AddUserConnection(index, user, c) ==
  IF user # NoUser THEN [index EXCEPT ![user] = @ \cup {c}] ELSE index

\* A trigger that does not look at the in-flight marker.
InFlightIgnored(c, pending) == FALSE

\* triggerExportForConnection: the guard on the in-flight marker.
InFlight(c, pending) == c \in pending

\* A handler that never requests the export.
AutoTriggerNever(isConfigured) == FALSE

\* A handler that requests the export whether credentials are set or not.
AutoTriggerUnconditional(isConfigured) == TRUE

\* Whether handleConnectionSuccess calls triggerExportForConnection.
AutoTrigger(isConfigured) == isConfigured

ReceiveConnectionSuccess(body, sigValid) ==
  /\ Routed(body, sigValid, "handleConnectionSuccess")
  /\ ~HandlerRaises("handleConnectionSuccess", body)
  /\ LET n == Len(reqs) + 1
         c == body.conn
     IN
     /\ heap' = [heap EXCEPT ![n] = ConnectionData(body, n)]
     /\ connectionStatus' = [connectionStatus EXCEPT ![c] = n]
     /\ timers' = timers \cup {n}
     /\ connectionTimeouts' = StartExportMonitoring(connectionTimeouts, c, n)
     /\ userConnections' = AddUserConnection(userConnections, body.user, c)
     /\ IF AutoTrigger(configured) /\ ~InFlight(c, pendingExportRequests)
        THEN \* the provider call is sent and the handler waits for its answer
             /\ pendingExportRequests' = pendingExportRequests \cup {c}
             /\ Suspend(body, sigValid, "trigger", n, NoUser)
        ELSE /\ UNCHANGED triggerVars
             /\ Complete(body, sigValid, TRUE, "returned")
  /\ UNCHANGED <<connectionExports, userExports, healthChecks, recordVars, envVars>>

ApplyRevoked(connection, body, n) ==
  [connection EXCEPT !.connectionStatus = body.connection_status, !.revokedAt = n]

ReceiveAuthorizationRevoked(body, sigValid) ==
  /\ Routed(body, sigValid, "handleAuthorizationRevoked")
  /\ ~HandlerRaises("handleAuthorizationRevoked", body)
  /\ LET n == Len(reqs) + 1
         c == body.conn
         obj == connectionStatus[c]
         ext == ExternalIdOf(c)
     IN
     /\ heap' = IF obj # NoObj THEN [heap EXCEPT ![obj] = ApplyRevoked(@, body, n)] ELSE heap
     /\ userConnections' = IF obj # NoObj /\ ext # NoUser
                           THEN [userConnections EXCEPT ![ext] = @ \ {c}]
                           ELSE userConnections
     /\ userExports' = IF obj # NoObj /\ ext # NoUser
                       THEN [userExports EXCEPT ![ext][c] = None]
                       ELSE userExports
     /\ connectionExports' = [connectionExports EXCEPT ![c] = None]
     /\ Complete(body, sigValid, TRUE, "returned")
  /\ UNCHANGED <<connectionStatus, monitorVars, recordVars, triggerVars, envVars>>

\* ------------------------------------------------- export trigger

ProviderStatus == "in_progress"
ProviderTask == "task1"
\* error.message of a failed provider call, whatever the failure
ErrProvider == "Fasten request failed"

\* A fetch that repeats every failed attempt, whatever its status.
RetriesOnAnyFailure(outcome, attempt) == attempt <= MaxRetries

\* authorizedFastenFetch: a failed attempt is repeated when its status is
\* retryable and attempt <= maxRetries.
Retries(outcome, attempt) == outcome = "retryable" /\ attempt <= MaxRetries

ApplyTriggerSuccess(connection, outcome, n) ==
  [connection EXCEPT
     !.exportStatus = IF outcome = "ok_task" THEN ProviderStatus ELSE "requested",
     !.lastExportRequested = n,
     !.pendingTaskId = IF outcome = "ok_task" THEN ProviderTask ELSE @]

ApplyTriggerFailure(connection, outcome, n) ==
  [connection EXCEPT
     !.exportStatus = "request_failed",
     !.exportError = ErrProvider,
     !.lastExportRequested = n]

\* A handler that lets the failure of its I/O escape to the endpoint.
ResumeRaising(i) ==
  /\ reqs' = [reqs EXCEPT ![i].pc = "done", ![i].outcome = "raised",
                          ![i].response = AckStatus("raised"), ![i].attempt = 0]
  /\ webhookEvents' = SetOutcome(webhookEvents, i, "raised")

\* The handler of request i resumes and returns; the response is sent.
Resume(i) ==
  /\ reqs' = [reqs EXCEPT ![i].pc = "done", ![i].outcome = "returned",
                          ![i].response = AckStatus("returned"), ![i].attempt = 0]
  /\ webhookEvents' = SetOutcome(webhookEvents, i, "returned")

\* A trigger with no finally block: the marker stays.
ReleaseMarkerNever(pending, c) == pending

\* triggerExportForConnection: finally { pendingExportRequests.delete(id) }
ReleaseMarker(pending, c) == pending \ {c}

\* The provider answers with a retryable status: wait, then send again.
\* attempt counts the calls this trigger has sent to the provider.
TriggerRetry(i) ==
  /\ i \in DOMAIN reqs
  /\ reqs[i].pc = "trigger"
  /\ Retries("retryable", reqs[i].attempt)
  /\ reqs' = [reqs EXCEPT ![i].attempt = @ + 1]
  /\ UNCHANGED <<webhookEvents, processedEventIds, registryVars, monitorVars,
                 recordVars, pendingExportRequests, envVars>>

TriggerSucceeds(i, outcome) ==
  /\ i \in DOMAIN reqs
  /\ reqs[i].pc = "trigger"
  /\ outcome \in {"ok_task", "ok_empty"}
  /\ heap' = [heap EXCEPT ![reqs[i].data] = ApplyTriggerSuccess(@, outcome, i)]
  /\ pendingExportRequests' = ReleaseMarker(pendingExportRequests, reqs[i].body.conn)
  /\ Resume(i)
  /\ UNCHANGED <<processedEventIds, connectionExports, connectionStatus, userConnections,
                 userExports, monitorVars, recordVars, envVars>>

TriggerFails(i, outcome) ==
  /\ i \in DOMAIN reqs
  /\ reqs[i].pc = "trigger"
  /\ outcome \in {"retryable", "fatal", "throw"}
  /\ ~Retries(outcome, reqs[i].attempt)
  /\ heap' = [heap EXCEPT ![reqs[i].data] = ApplyTriggerFailure(@, outcome, i)]
  /\ pendingExportRequests' = ReleaseMarker(pendingExportRequests, reqs[i].body.conn)
  /\ Resume(i)
  /\ UNCHANGED <<processedEventIds, connectionExports, connectionStatus, userConnections,
                 userExports, monitorVars, recordVars, envVars>>

\* ------------------------------------------------- bulk download

\* A parser that keeps the lines JSON.parse fails on.
ParseResourcesKeepingMalformed(payload) ==
  SelectSeq(payload, LAMBDA line : line.kind # "blank")

\* split on newlines, drop blank lines, JSON.parse each, drop the failures
ParseResources(payload) == SelectSeq(payload, LAMBDA line : line.kind = "json")

\* A transform that loses the last resource of a batch.
TransformForFoundryPartial(resources, c, user, at) ==
  [k \in 1..(Len(resources) - 1) |->
     [auth0_user_id |-> user, org_connection_id |-> c, ingested_at |-> at,
      fhir_resource |-> resources[k], resource_type |-> resources[k].resourceType,
      resource_id |-> resources[k].id, source |-> "fasten-connect"]]

TransformForFoundry(resources, c, user, at) ==
  [k \in DOMAIN resources |->
     [auth0_user_id |-> user, org_connection_id |-> c, ingested_at |-> at,
      fhir_resource |-> resources[k], resource_type |-> resources[k].resourceType,
      resource_id |-> resources[k].id, source |-> "fasten-connect"]]

TrimHistory(history) ==
  IF Len(history) > HISTORY_LIMIT
  THEN SubSeq(history, Len(history) - HISTORY_LIMIT + 1, Len(history))
  ELSE history

BatchSnapshot(user, c, records, at) ==
  [external_id |-> user, org_connection_id |-> c, ingested_at |-> at,
   record_count |-> Len(records)]

\* A store that keeps only the records of the last batch of a user.
StoreReplacingRecords(store, user, records) == [store EXCEPT ![user] = records]

\* storeForFoundryIngestion: userRecords.push(...foundryRecords)
StoreRecords(store, user, records) == [store EXCEPT ![user] = @ \o records]

DownloadSucceeds(i, payload) ==
  /\ i \in DOMAIN reqs
  /\ reqs[i].pc = "download"
  /\ payload \in AllPayloads
  /\ LET c == reqs[i].body.conn
         user == reqs[i].user
         records == TransformForFoundry(ParseResources(payload), c, user, i)
     IN
     /\ foundryDataStore' = StoreRecords(foundryDataStore, user, records)
     /\ ingestionHistory' =
          TrimHistory(Append(ingestionHistory, BatchSnapshot(user, c, records, i)))
  /\ Resume(i)
  /\ UNCHANGED <<processedEventIds, registryVars, monitorVars, triggerVars, envVars>>

\* fetch throws or answers not ok: downloadAndProcessFHIR throws and
\* handleExportSuccess catches it.
DownloadFails(i) ==
  /\ i \in DOMAIN reqs
  /\ reqs[i].pc = "download"
  /\ Resume(i)
  /\ UNCHANGED <<processedEventIds, registryVars, monitorVars, recordVars,
                 triggerVars, envVars>>

\* ------------------------------------------------- streamProcessFHIR

\* The characters of a downloaded text: "pp" is the JSON of a Patient and "o"
\* the JSON of an Observation; JSON.parse accepts them with spaces around and
\* fails on every other line that is not blank.
NL == "nl"
Chars == {"p", "o", " ", NL}

RECURSIVE TextsOfLength(_)
TextsOfLength(n) ==
  IF n = 0 THEN {<<>>}
  ELSE {Append(t, ch) : t \in TextsOfLength(n - 1), ch \in Chars}

Texts == UNION {TextsOfLength(n) : n \in 0..MaxText}

\* OPTIMIZATION_CONFIG.processing.batchSize: the default and two small ones.
BatchSizes == {1, 2, DefaultBatchSize}

\* text.split('\n'), with `cur` the line being read
RECURSIVE SplitLines(_, _, _)
SplitLines(text, cur, acc) ==
  IF text = <<>> THEN Append(acc, cur)
  ELSE IF Head(text) = NL
       THEN SplitLines(Tail(text), <<>>, Append(acc, cur))
       ELSE SplitLines(Tail(text), Append(cur, Head(text)), acc)

RECURSIVE TrimStart(_)
TrimStart(line) ==
  IF line # <<>> /\ Head(line) = " " THEN TrimStart(Tail(line)) ELSE line

RECURSIVE TrimEnd(_)
TrimEnd(line) ==
  IF line # <<>> /\ line[Len(line)] = " "
  THEN TrimEnd(SubSeq(line, 1, Len(line) - 1))
  ELSE line

\* line.trim()
Trim(line) == TrimEnd(TrimStart(line))

\* JSON.parse(line): the resource, or None when it throws
ParseLine(line) ==
  CASE Trim(line) = <<"p", "p">> -> PatientLine
    [] Trim(line) = <<"o">> -> ObservationLine
    [] OTHER -> None

\* downloadAndProcessFHIR on a text: split on newlines, keep the lines that
\* are not blank, JSON.parse each, drop the ones that fail, transform.
ParseText(text, c, user, at) ==
  LET lines == SplitLines(text, <<>>, <<>>)
      nonBlank == SelectSeq(lines, LAMBDA line : Trim(line) # <<>>)
      parsed == [k \in DOMAIN nonBlank |-> ParseLine(nonBlank[k])]
      resources == SelectSeq(parsed, LAMBDA resource : resource # None)
  IN TransformForFoundry(resources, c, user, at)

StreamConn == "c1"
StreamUser == "u1"

\* A loop that forgets what is left of the batch at the end of a chunk.
RECURSIVE ProcessLinesLosingBatch(_, _, _, _)
ProcessLinesLosingBatch(lines, batch, records, batchSize) ==
  IF lines = <<>> THEN records
  ELSE LET line == Head(lines)
           resource == ParseLine(line)
           pushed ==
             IF Trim(line) # <<>> /\ resource # None
             THEN batch \o TransformForFoundry(<<resource>>, StreamConn, StreamUser, NoTime)
             ELSE batch
           full == pushed # batch /\ Len(pushed) >= batchSize
       IN ProcessLinesLosingBatch(Tail(lines), IF full THEN <<>> ELSE pushed,
                                  IF full THEN records \o pushed ELSE records, batchSize)

\* The loop over the complete lines of one chunk: a line that parses is
\* transformed and pushed on `batch`; a full batch is moved to the records;
\* what is left of the batch is moved after the loop.
RECURSIVE ProcessLines(_, _, _, _)
ProcessLines(lines, batch, records, batchSize) ==
  IF lines = <<>> THEN records \o batch
  ELSE LET line == Head(lines)
           resource == ParseLine(line)
           pushed ==
             IF Trim(line) # <<>> /\ resource # None
             THEN batch \o TransformForFoundry(<<resource>>, StreamConn, StreamUser, NoTime)
             ELSE batch
           full == pushed # batch /\ Len(pushed) >= batchSize
       IN ProcessLines(Tail(lines), IF full THEN <<>> ELSE pushed,
                       IF full THEN records \o pushed ELSE records, batchSize)

\* A reader that forgets the incomplete line at the end of a chunk.
IncompleteLineDropped(lines) == <<>>

\* buffer = lines.pop() || ''
IncompleteLine(lines) == lines[Len(lines)]

\* reader.read() returns the next `len` characters of the text.
StreamRead(len) ==
  /\ stream.pc = "reading"
  /\ len \in 1..(Len(stream.text) - stream.pos)
  /\ LET chunk == SubSeq(stream.text, stream.pos + 1, stream.pos + len)
         lines == SplitLines(stream.buffer \o chunk, <<>>, <<>>)
         complete == SubSeq(lines, 1, Len(lines) - 1)
     IN stream' = [stream EXCEPT
          !.pos = @ + len,
          !.buffer = IncompleteLine(lines),
          !.processedRecords = ProcessLines(complete, <<>>, @, stream.batchSize)]
  /\ UNCHANGED <<reqs, webhookEvents, processedEventIds, registryVars, monitorVars,
                 recordVars, triggerVars, secret, configured, cacheVars, fetchRun>>

\* reader.read() returns done: what is left in the buffer is parsed and the
\* records are returned.
StreamEnd ==
  /\ stream.pc = "reading"
  /\ stream.pos = Len(stream.text)
  /\ LET resource == ParseLine(stream.buffer) IN
     stream' = [stream EXCEPT
       !.pc = "done",
       !.processedRecords =
          IF Trim(stream.buffer) # <<>> /\ resource # None
          THEN @ \o TransformForFoundry(<<resource>>, StreamConn, StreamUser, NoTime)
          ELSE @]
  /\ UNCHANGED <<reqs, webhookEvents, processedEventIds, registryVars, monitorVars,
                 recordVars, triggerVars, secret, configured, cacheVars, fetchRun>>

\* ------------------------------------------------- FoundryCache

\* Values stored under a key: arrays of records.
CacheValues == {<<>>, <<"r1">>, <<"r1", "r2">>}

\* set(key, value) at time t
CacheSet(cache, key, value, t) ==
  [cache EXCEPT ![key] = [value |-> value, timestamp |-> t]]

\* get: Date.now() - entry.timestamp > this.ttlMs
IsExpired(entry, t) == t - entry.timestamp > CacheTTL

\* get(key) at time t returns the value of a live entry, and null otherwise.
CacheHit(cache, key, t) == cache[key] # None /\ ~IsExpired(cache[key], t)

\* get(key) at time t deletes an expired entry.
CacheAfterGet(cache, key, t) ==
  IF cache[key] # None /\ IsExpired(cache[key], t)
  THEN [cache EXCEPT ![key] = None]
  ELSE cache

\* What get(key) at time t returns.
GetResult(cache, key, t) ==
  [key |-> key, at |-> t, hit |-> CacheHit(cache, key, t),
   value |-> IF CacheHit(cache, key, t) THEN cache[key].value ELSE <<>>]

\* Time passes.
Tick ==
  /\ now < MaxTime
  /\ now' = now + 1
  /\ UNCHANGED <<reqs, webhookEvents, processedEventIds, registryVars, monitorVars,
                 recordVars, triggerVars, secret, configured, foundryCache, lastGet,
                 lastRead, runVars>>

CallCacheSet(key, value) ==
  /\ foundryCache' = CacheSet(foundryCache, key, value, now)
  /\ UNCHANGED <<reqs, webhookEvents, processedEventIds, registryVars, monitorVars,
                 recordVars, triggerVars, secret, configured, now, lastGet, lastRead,
                 runVars>>

CallCacheGet(key) ==
  /\ lastGet' = GetResult(foundryCache, key, now)
  /\ foundryCache' = CacheAfterGet(foundryCache, key, now)
  /\ UNCHANGED <<reqs, webhookEvents, processedEventIds, registryVars, monitorVars,
                 recordVars, triggerVars, secret, configured, now, lastRead, runVars>>

CallCacheClear ==
  /\ foundryCache' = [k \in CacheKeys |-> None]
  /\ UNCHANGED <<reqs, webhookEvents, processedEventIds, registryVars, monitorVars,
                 recordVars, triggerVars, secret, configured, now, lastGet, lastRead,
                 runVars>>

\* ------------------------------------------------- record endpoints

AllDataKey == "foundry-data-all"

\* getAllFoundryData: the records of every user, one user after the other.
RECURSIVE RecordsOf(_, _)
RecordsOf(store, users) ==
  IF users = {} THEN <<>>
  ELSE LET u == CHOOSE v \in users : TRUE
       IN store[u] \o RecordsOf(store, users \ {u})

GetAllFoundryData(store) == RecordsOf(store, Users)

\* GET /api/foundry/data: the cached array if get returns one (an empty
\* array too), and otherwise the records of the store, which are then cached.
ReadAllData ==
  /\ LET got == GetResult(foundryCache, AllDataKey, now)
         afterGet == CacheAfterGet(foundryCache, AllDataKey, now)
         allData == IF got.hit THEN got.value ELSE GetAllFoundryData(foundryDataStore)
     IN
     /\ lastGet' = got
     /\ foundryCache' =
          IF got.hit THEN afterGet ELSE CacheSet(afterGet, AllDataKey, allData, now)
     /\ lastRead' = [data |-> allData, at |-> now, status |-> StatusOk]
  /\ UNCHANGED <<reqs, webhookEvents, processedEventIds, registryVars, monitorVars,
                 recordVars, triggerVars, secret, configured, now, runVars>>

AllUsers == "all_users"

\* clearProcessedData(externalId): the records and the batches of one user,
\* or of every user when no user is named.
ClearProcessedData(store, target) ==
  [u \in DOMAIN store |-> IF target \in {AllUsers, u} THEN <<>> ELSE store[u]]

ClearHistory(history, target) ==
  SelectSeq(history, LAMBDA batch : target # AllUsers /\ batch.external_id # target)

\* POST /api/foundry/clear
ClearData(target) ==
  /\ target \in Users \cup {AllUsers}
  /\ foundryDataStore' = ClearProcessedData(foundryDataStore, target)
  /\ ingestionHistory' = ClearHistory(ingestionHistory, target)
  /\ UNCHANGED <<reqs, webhookEvents, processedEventIds, registryVars, monitorVars,
                 triggerVars, secret, configured, cacheVars, runVars>>

\* ------------------------------------------------- authorizedFastenFetch

RETRYABLE_STATUSES == {408, 429, 500, 502, 503, 504}

\* The statuses a provider response may have; 0 stands for a fetch that
\* throws instead of answering.
ResponseStatuses == {200, 201, 400, 401, 404} \cup RETRYABLE_STATUSES
FetchThrew == 0

\* response.ok
ResponseOk(status) == status \in 200..299

\* The outcome of a call that was answered with `status`.
OutcomeOf(status) ==
  IF ResponseOk(status) THEN "ok_empty"
  ELSE IF status \in RETRYABLE_STATUSES THEN "retryable" ELSE "fatal"

\* requestEHIExport calls authorizedFastenFetch: the first call is sent.
FetchStarts ==
  /\ fetchRun.pc = "idle"
  /\ fetchRun' = [fetchRun EXCEPT !.attempt = 1, !.pc = "calling"]
  /\ UNCHANGED <<reqs, webhookEvents, processedEventIds, registryVars, monitorVars,
                 recordVars, triggerVars, secret, configured, cacheVars, stream>>

\* The provider answers the call with `status`: the response is returned, or
\* the call is sent again after the wait, or the error is thrown.
FetchResponds(status) ==
  /\ fetchRun.pc = "calling"
  /\ status \in ResponseStatuses
  /\ fetchRun' =
       [fetchRun EXCEPT
          !.calls = Append(@, status),
          !.attempt = IF ~ResponseOk(status) /\ Retries(OutcomeOf(status), fetchRun.attempt)
                      THEN @ + 1 ELSE @,
          !.pc = IF ResponseOk(status) THEN "returned"
                 ELSE IF Retries(OutcomeOf(status), fetchRun.attempt) THEN "calling"
                 ELSE "threw"]
  /\ UNCHANGED <<reqs, webhookEvents, processedEventIds, registryVars, monitorVars,
                 recordVars, triggerVars, secret, configured, cacheVars, stream>>

\* fetch rejects (no response): the rejection propagates to the caller.
FetchThrows ==
  /\ fetchRun.pc = "calling"
  /\ fetchRun' = [fetchRun EXCEPT !.calls = Append(@, FetchThrew), !.pc = "threw"]
  /\ UNCHANGED <<reqs, webhookEvents, processedEventIds, registryVars, monitorVars,
                 recordVars, triggerVars, secret, configured, cacheVars, stream>>

\* ------------------------------------------------- specification

Receive(body, sigValid) ==
  \/ ReceiveRejected(body, sigValid)
  \/ ReceiveDuplicate(body, sigValid)
  \/ ReceiveRaising(body, sigValid)
  \/ ReceiveWebhookTest(body, sigValid)
  \/ ReceiveUnknown(body, sigValid)
  \/ ReceiveExportSuccess(body, sigValid)
  \/ ReceiveExportFailed(body, sigValid)
  \/ ReceiveConnectionSuccess(body, sigValid)
  \/ ReceiveAuthorizationRevoked(body, sigValid)

\* The provider and the download answer; the provider answers no export
\* request with a retryable status.
Answers ==
  \/ \E i \in 1..MaxDeliveries, outcome \in ProviderOutcomes : TriggerSucceeds(i, outcome)
  \/ \E i \in 1..MaxDeliveries, outcome \in ProviderOutcomes : TriggerFails(i, outcome)
  \/ \E i \in 1..MaxDeliveries, payload \in Payloads : DownloadSucceeds(i, payload)
  \/ \E i \in 1..MaxDeliveries : DownloadFails(i)

\* Requests about one connection, answered in any order.  No export timeout
\* elapses (EXPORT_TIMEOUT is 30 minutes).
Next ==
  \/ \E body \in Bodies, sigValid \in BOOLEAN : Receive(body, sigValid)
  \/ Answers

Spec == Init /\ [][Next]_vars

\* Connections made and revoked, with a provider that may answer an export
\* request with a retryable status any number of times.
NextRetry ==
  \/ \E body \in TriggerBodies, sigValid \in BOOLEAN :
        \/ ReceiveRejected(body, sigValid)
        \/ ReceiveDuplicate(body, sigValid)
        \/ ReceiveConnectionSuccess(body, sigValid)
        \/ ReceiveAuthorizationRevoked(body, sigValid)
  \/ \E i \in 1..MaxDeliveries : TriggerRetry(i)
  \/ \E i \in 1..MaxDeliveries, outcome \in ProviderOutcomes : TriggerSucceeds(i, outcome)
  \/ \E i \in 1..MaxDeliveries, outcome \in ProviderOutcomes : TriggerFails(i, outcome)

SpecRetry == Init /\ [][NextRetry]_vars

\* The events of SpecMonitor: the events about connection c1, without ids.
\* Connection c1 is made on platform epic or on platform cerner.
MonitorBodies ==
       ConnectionEvents({"c1"}, {"u1"}, {NoId})
  \cup ConnectionsOn(OtherPlatforms, {"c1"}, {"u1"}, {NoId})

\* Export timeouts elapse between the requests about one connection.
NextMonitor ==
  \/ \E body \in MonitorBodies, sigValid \in BOOLEAN :
        \/ ReceiveRejected(body, sigValid)
        \/ ReceiveExportSuccess(body, sigValid)
        \/ ReceiveExportFailed(body, sigValid)
        \/ ReceiveConnectionSuccess(body, sigValid)
        \/ ReceiveAuthorizationRevoked(body, sigValid)
  \/ \E t \in 1..MaxDeliveries : TimeoutFires(t)
  \/ Answers

SpecMonitor == Init /\ [][NextMonitor]_vars

\* The events of SpecIngest: connection c1 of user u1 is made and revoked and
\* its exports succeed, without event ids.
IngestBodies ==
       {b \in ConnectionEvents({"c1"}, {"u1"}, {NoId}) : b.type # ExportFailedType}
  \cup UnstatedRevokes({"c1"}, {NoId})

\* Exports are downloaded and ingested; the download returns any payload.
NextIngest ==
  \/ \E body \in IngestBodies, sigValid \in BOOLEAN :
        \/ ReceiveRejected(body, sigValid)
        \/ ReceiveExportSuccess(body, sigValid)
        \/ ReceiveConnectionSuccess(body, sigValid)
        \/ ReceiveAuthorizationRevoked(body, sigValid)
  \/ \E i \in 1..MaxDeliveries, outcome \in ProviderOutcomes : TriggerSucceeds(i, outcome)
  \/ \E i \in 1..MaxDeliveries, outcome \in ProviderOutcomes : TriggerFails(i, outcome)
  \/ \E i \in 1..MaxDeliveries, payload \in AllPayloads : DownloadSucceeds(i, payload)
  \/ \E i \in 1..MaxDeliveries : DownloadFails(i)

SpecIngest == Init /\ [][NextIngest]_vars

\* streamProcessFHIR is called on any text with any batch size; the service
\* is otherwise idle.
InitStream ==
  /\ InitService /\ ~secret /\ ~configured
  /\ InitCache
  /\ \E text \in Texts, batchSize \in BatchSizes :
       stream = [StreamIdle EXCEPT !.text = text, !.batchSize = batchSize,
                                   !.pc = "reading"]
  /\ fetchRun = FetchIdle

\* The text arrives in chunks of any lengths.
NextStream ==
  \/ \E len \in 1..MaxText : StreamRead(len)
  \/ StreamEnd

SpecStream == InitStream /\ [][NextStream]_vars

\* The cache alone: values are set, read and cleared as time passes.
InitCacheOnly ==
  /\ InitService /\ ~secret /\ ~configured
  /\ InitCache
  /\ stream = StreamIdle
  /\ fetchRun = FetchIdle

NextCache ==
  \/ Tick
  \/ \E key \in CacheKeys, value \in CacheValues : CallCacheSet(key, value)
  \/ \E key \in CacheKeys : CallCacheGet(key)
  \/ CallCacheClear

SpecCache == InitCacheOnly /\ [][NextCache]_vars

\* One provider request of a trigger, with credentials configured; every
\* call is answered or throws.
InitFetch ==
  /\ InitService /\ ~secret /\ configured
  /\ InitCache
  /\ stream = StreamIdle
  /\ fetchRun = FetchIdle

NextFetch ==
  \/ FetchStarts
  \/ \E status \in ResponseStatuses : FetchResponds(status)
  \/ FetchThrows

SpecFetch == InitFetch /\ [][NextFetch]_vars

\* Every call returns: a call that is sent is answered or throws.
SpecFetchFair == SpecFetch /\ WF_vars(NextFetch)

\* The events of SpecRecords: every kind of event about connection c1 of
\* user u1, a test event and an event of an unknown type, without ids.
RecordBodies ==
       ConnectionEvents({"c1"}, {"u1"}, {NoId})
  \cup {MkBody(WebhookTestType, NoId, TRUE, NoConn, NoUser, NoText, NoText),
        MkBody(OtherType, NoId, TRUE, NoConn, NoUser, NoText, NoText)}

\* Exports are ingested and records cleared between events of every kind,
\* while export timeouts elapse.
NextRecords ==
  \/ \E body \in RecordBodies, sigValid \in BOOLEAN :
        \/ ReceiveRejected(body, sigValid)
        \/ ReceiveWebhookTest(body, sigValid)
        \/ ReceiveUnknown(body, sigValid)
        \/ ReceiveExportSuccess(body, sigValid)
        \/ ReceiveExportFailed(body, sigValid)
        \/ ReceiveConnectionSuccess(body, sigValid)
        \/ ReceiveAuthorizationRevoked(body, sigValid)
  \/ \E t \in 1..MaxDeliveries : TimeoutFires(t)
  \/ Answers
  \/ \E target \in Users \cup {AllUsers} : ClearData(target)

SpecRecords == Init /\ [][NextRecords]_vars

\* The events of SpecOwners: connection c1 is made for user u1 and for user
\* u2, its exports end and it is revoked, without event ids.
OwnerBodies == ConnectionEvents({"c1"}, {"u1", "u2"}, {NoId})

\* A connection that changes owner between its events.
NextOwners ==
  \/ \E body \in OwnerBodies, sigValid \in BOOLEAN :
        \/ ReceiveRejected(body, sigValid)
        \/ ReceiveExportSuccess(body, sigValid)
        \/ ReceiveExportFailed(body, sigValid)
        \/ ReceiveConnectionSuccess(body, sigValid)
        \/ ReceiveAuthorizationRevoked(body, sigValid)
  \/ Answers

SpecOwners == Init /\ [][NextOwners]_vars

PairBodies == ConnectionEvents(Conns, Users, {NoId})

\* Two connections, each of either user, with their events interleaved.
NextPairs ==
  \/ \E body \in PairBodies, sigValid \in BOOLEAN :
        \/ ReceiveExportSuccess(body, sigValid)
        \/ ReceiveExportFailed(body, sigValid)
        \/ ReceiveConnectionSuccess(body, sigValid)
        \/ ReceiveAuthorizationRevoked(body, sigValid)
  \/ Answers

SpecPairs == Init /\ [][NextPairs]_vars

\* The events of SpecRead: connection c1 of user u1 is made and its export
\* succeeds.
ReadBodies ==
  {b \in ConnectionEvents({"c1"}, {"u1"}, {NoId}) :
     b.type \in {ConnectionSuccessType, ExportSuccessType}}

\* Records are ingested, read through the cache and cleared as time passes.
NextRead ==
  \/ \E body \in ReadBodies, sigValid \in BOOLEAN :
        \/ ReceiveExportSuccess(body, sigValid)
        \/ ReceiveConnectionSuccess(body, sigValid)
  \/ \E i \in 1..MaxDeliveries, outcome \in ProviderOutcomes : TriggerSucceeds(i, outcome)
  \/ \E i \in 1..MaxDeliveries, outcome \in ProviderOutcomes : TriggerFails(i, outcome)
  \/ \E i \in 1..MaxDeliveries, payload \in Payloads : DownloadSucceeds(i, payload)
  \/ \E i \in 1..MaxDeliveries : DownloadFails(i)
  \/ ReadAllData
  \/ \E target \in Users \cup {AllUsers} : ClearData(target)
  \/ Tick

SpecRead == Init /\ [][NextRead]_vars

\* ------------------------------------------------- properties

Accepted(i) == reqs[i].response # StatusUnauthorized

\* The archived events of request i.
ArchivedOf(i) == {k \in DOMAIN webhookEvents : webhookEvents[k].id = i}

\* A step in which request n arrives (and runs up to its first wait).
Arrives(n) == Len(reqs') = Len(reqs) + 1 /\ n = Len(reqs')

Revoked(c) ==
  /\ connectionStatus[c] # NoObj
  /\ heap[connectionStatus[c]].connectionStatus = "revoked"

TriggersInFlight(c) ==
  {i \in DOMAIN reqs : reqs[i].pc = "trigger" /\ reqs[i].body.conn = c}

\* C1: for every event id e, the type handler runs for at most one of the
\* deliveries of e, whatever runs in between; a delivery is routed only with
\* its id marked as seen in the same step; and a delivery of an id already
\* seen is routed to no handler and changes no connection, export, user
\* index, monitor or record state.
C1_HandlerRunsOncePerId ==
  /\ [](\A e \in EventIds :
          /\ Cardinality({i \in DOMAIN reqs :
                            Accepted(i) /\ reqs[i].body.id = e /\ reqs[i].routed}) <= 1
          /\ (\E i \in DOMAIN reqs : Accepted(i) /\ reqs[i].body.id = e /\ reqs[i].routed)
               => e \in processedEventIds)
  /\ [][\A n \in 1..MaxDeliveries :
          (Arrives(n) /\ Accepted(n)' /\ reqs'[n].body.id \in processedEventIds)
            => /\ ~reqs'[n].routed
               /\ UNCHANGED <<registryVars, monitorVars, recordVars, triggerVars>>]_vars

\* A redelivery of e1 is skipped while the handler of the first delivery
\* still waits for its answer.
C1_Witness ==
  \E i, j \in DOMAIN reqs :
    /\ i < j /\ Accepted(i) /\ Accepted(j)
    /\ reqs[i].body.id = "e1" /\ reqs[j].body.id = "e1"
    /\ reqs[i].routed /\ reqs[i].pc # "done"
    /\ ~reqs[j].routed /\ reqs[j].pc = "done"

\* C2 as stated: submitting the same event id twice leaves exactly one
\* archived outcome for it; the duplicate adds no second archived event.
C2_OneArchivedOutcomePerId ==
  \A e \in EventIds :
    Cardinality({k \in DOMAIN webhookEvents : webhookEvents[k].body.id = e}) <= 1

\* C2 amended: every delivery that passes verification, a duplicate too, is
\* archived as an event of its own under a fresh id and with its body, so the
\* archive has as many events as deliveries were accepted; once a duplicate
\* is answered, the answer is the success acknowledgment and its archived
\* event is marked processed with no error, though no handler ran for it.
C2_EveryDeliveryArchived ==
  /\ Len(webhookEvents) = Cardinality({i \in DOMAIN reqs : Accepted(i)})
  /\ \A i \in DOMAIN reqs :
       Accepted(i) =>
         /\ Cardinality(ArchivedOf(i)) = 1
         /\ \A k \in ArchivedOf(i) :
              /\ webhookEvents[k].body = reqs[i].body
              /\ (reqs[i].pc = "done" /\ ~reqs[i].routed)
                   => /\ reqs[i].response = StatusOk
                      /\ webhookEvents[k].processed
                      /\ webhookEvents[k].error = NoText

\* The same event delivered twice and answered twice: two archived events.
C2_Witness ==
  \E i, j \in DOMAIN reqs :
    /\ i < j /\ Accepted(i) /\ Accepted(j)
    /\ reqs[i].body = reqs[j].body /\ reqs[i].body.id = "e1"
    /\ reqs[i].pc = "done" /\ reqs[j].pc = "done"
    /\ reqs[i].routed /\ ~reqs[j].routed
    /\ Cardinality({k \in DOMAIN webhookEvents : webhookEvents[k].body.id = "e1"}) = 2

\* C3: for every connection c at most one provider export request of
\* trigger(c) is in flight, and the in-flight marker of c is set exactly
\* while one is; a connection_success for c that arrives while a trigger of
\* c waits for the provider sends nothing to the provider (it never waits on
\* a provider call) and its handler returns in the same step.
C3_SingleInFlightTrigger ==
  /\ [](\A c \in Conns :
          /\ Cardinality(TriggersInFlight(c)) <= 1
          /\ (c \in pendingExportRequests <=> TriggersInFlight(c) # {}))
  /\ [][\A n \in 1..MaxDeliveries :
          (/\ Arrives(n) /\ Accepted(n)' /\ reqs'[n].routed
           /\ reqs'[n].body.type = ConnectionSuccessType /\ reqs'[n].body.hasData
           /\ TriggersInFlight(reqs'[n].body.conn) # {})
            => /\ reqs'[n].pc = "done" /\ reqs'[n].attempt = 0
               /\ reqs'[n].response = StatusOk
               /\ UNCHANGED pendingExportRequests
               /\ \A i \in DOMAIN reqs : reqs'[i] = reqs[i]]_vars

\* A second connection_success for c1 has returned while the trigger of the
\* first still waits for the provider.
C3_Witness ==
  \E i, j \in DOMAIN reqs :
    /\ i < j /\ Accepted(i) /\ Accepted(j)
    /\ reqs[i].pc = "trigger" /\ reqs[i].body.conn = "c1"
    /\ reqs[j].body.type = ConnectionSuccessType /\ reqs[j].body.conn = "c1"
    /\ reqs[j].routed /\ reqs[j].pc = "done"

\* C4 as stated: once a connection is revoked no later step moves it out of
\* revoked.
C4_RevokedIsTerminal ==
  [][\A c \in Conns : Revoked(c) => Revoked(c)']_vars

ExportTracking(c) ==
  LET connection == heap[connectionStatus[c]] IN
  <<connection.exportStatus, connection.lastExportSuccess, connection.lastExportFailure,
    connection.failureReason>>

\* C5 as stated: processing export_success or export_failed for a revoked
\* connection changes none of its export-tracking fields and brings back
\* neither its Export nor an entry for it in a user's export index.
C5_RevokedAcceptsNoExportMutation ==
  [][\A n \in 1..MaxDeliveries, c \in Conns :
       (/\ Arrives(n) /\ Accepted(n)'
        /\ reqs'[n].body.type \in {ExportSuccessType, ExportFailedType}
        /\ reqs'[n].body.hasData
        /\ reqs'[n].body.conn = c
        /\ Revoked(c))
         => /\ Revoked(c)'
            /\ ExportTracking(c)' = ExportTracking(c)
            /\ connectionExports'[c] = None
            /\ \A u \in Users : userExports'[u][c] = None]_vars

\* C6: every request that passes verification is answered with the success
\* acknowledgment once routing is over, whether the handler returned or
\* raised; when it raised, the error message is on the archived event and
\* the event is not marked processed; when it returned, the event is marked
\* processed and carries no error.
C6_AckWhateverTheHandlerDid ==
  \A i \in DOMAIN reqs :
    (Accepted(i) /\ reqs[i].pc = "done") =>
      /\ reqs[i].response = StatusOk
      /\ reqs[i].outcome \in {"returned", "raised"}
      /\ \A k \in ArchivedOf(i) :
           /\ reqs[i].outcome = "raised"
                => webhookEvents[k].error # NoText /\ ~webhookEvents[k].processed
           /\ reqs[i].outcome = "returned"
                => webhookEvents[k].error = NoText /\ webhookEvents[k].processed

\* A handler raised and its request is answered.
C6_Witness ==
  \E i \in DOMAIN reqs :
    /\ Accepted(i) /\ reqs[i].pc = "done" /\ reqs[i].outcome = "raised"
    /\ reqs[i].response = StatusOk
    /\ \E k \in ArchivedOf(i) : webhookEvents[k].error = ErrNoData

\* C7: with a signing secret configured, a request whose signature does not
\* verify is answered with the auth-failure status, and only then: nothing is
\* archived for it, and the step that rejects it changes neither the seen
\* ids nor any connection, export, index, monitor, record or trigger state,
\* nor any other request.
C7_InvalidSignatureRejectsOnlyThatRequest ==
  /\ [](\A i \in DOMAIN reqs :
          /\ (secret /\ ~reqs[i].sigValid) <=> reqs[i].response = StatusUnauthorized
          /\ reqs[i].response = StatusUnauthorized
               => ArchivedOf(i) = {} /\ ~reqs[i].routed /\ reqs[i].pc = "done")
  /\ [][\A n \in 1..MaxDeliveries :
          (Arrives(n) /\ reqs'[n].response = StatusUnauthorized)
            => /\ UNCHANGED <<webhookEvents, processedEventIds, registryVars, monitorVars,
                              recordVars, triggerVars>>
               /\ \A i \in DOMAIN reqs : reqs'[i] = reqs[i]]_vars

\* A request is rejected and the next one, validly signed, is handled.
C7_Witness ==
  \E i, j \in DOMAIN reqs :
    /\ i < j /\ secret
    /\ reqs[i].response = StatusUnauthorized
    /\ Accepted(j) /\ reqs[j].sigValid /\ reqs[j].routed /\ reqs[j].pc = "done"
    /\ reqs[j].response = StatusOk
    /\ reqs[j].body.type = ConnectionSuccessType
    /\ connectionStatus[reqs[j].body.conn] # NoObj

KnownTypes ==
  {ConnectionSuccessType, ExportSuccessType, ExportFailedType, AuthorizationRevokedType,
   WebhookTestType}

\* C8: an event of a type the service does not know is acknowledged with
\* success in the step it arrives in, is archived without error, and the step
\* leaves every connection, export, user index, monitor entry, in-flight
\* marker and record unchanged.
C8_UnknownTypeIgnored ==
  [][\A n \in 1..MaxDeliveries :
       (Arrives(n) /\ Accepted(n)' /\ reqs'[n].body.type \notin KnownTypes)
         => /\ reqs'[n].pc = "done" /\ reqs'[n].response = StatusOk
            /\ reqs'[n].outcome = "returned"
            /\ \A k \in DOMAIN webhookEvents' :
                 webhookEvents'[k].id = n => webhookEvents'[k].error = NoText
            /\ UNCHANGED <<registryVars, monitorVars, recordVars, triggerVars>>]_vars

\* An event of an unknown type went through the default branch while a
\* connection exists.
C8_Witness ==
  \E i \in DOMAIN reqs :
    /\ Accepted(i) /\ reqs[i].body.type = OtherType /\ reqs[i].routed
    /\ reqs[i].pc = "done"
    /\ connectionStatus["c1"] # NoObj

\* C9: an event without an id is never skipped as a duplicate: every delivery
\* of it that passes verification is routed to its handler, and the set of
\* seen ids holds event ids only.
C9_NoIdAlwaysNew ==
  /\ NoId \notin processedEventIds
  /\ processedEventIds \subseteq EventIds
  /\ \A i \in DOMAIN reqs : (Accepted(i) /\ reqs[i].body.id = NoId) => reqs[i].routed

\* The same event without an id delivered three times and routed each time,
\* nothing marked as seen.
C9_Witness ==
  /\ Len(reqs) = 3
  /\ \A i \in DOMAIN reqs :
       /\ Accepted(i) /\ reqs[i].body = reqs[1].body /\ reqs[i].body.id = NoId
       /\ reqs[i].routed /\ reqs[i].body.type = ExportFailedType /\ reqs[i].body.hasData
  /\ processedEventIds = {}

\* The state the connection_success handler of request n leaves for
\* connection c and user u, without the trigger.
ConnectedAfter(n, c, u) ==
  /\ connectionStatus[c] # NoObj
  /\ LET connection == heap[connectionStatus[c]] IN
       /\ connection.connectionStatus = "authorized"
       /\ connection.revokedAt = NoTime
       /\ connection.connectedAt = n
       /\ connection.externalId = u
  /\ c \in userConnections[u]
  /\ connectionTimeouts[c] # None
  /\ connectionTimeouts[c].status = "monitoring"
  /\ connectionTimeouts[c].timeoutId \in timers

ScheduledDelay(t) == ExportTimeoutFor(heap[t].platformType)

\* C11 as stated: the deadline scheduled for a connection whose platform is
\* epic is strictly longer than the deadline scheduled for a connection of
\* another platform.
C11_EpicDeadlineLonger ==
  \A i, j \in 1..MaxDeliveries :
    (/\ heap[i] # None /\ heap[j] # None
     /\ heap[i].platformType = "epic" /\ heap[j].platformType # "epic")
      => ScheduledDelay(i) > ScheduledDelay(j)

\* The resource types of the valid lines of a payload, in payload order.
RECURSIVE ValidResourceTypes(_)
ValidResourceTypes(payload) ==
  IF payload = <<>> THEN <<>>
  ELSE IF Head(payload).kind = "json"
       THEN <<Head(payload).resourceType>> \o ValidResourceTypes(Tail(payload))
       ELSE ValidResourceTypes(Tail(payload))

\* Request i, an export_success, ends its download with a batch ingested.
Ingests(i) ==
  /\ i \in DOMAIN reqs
  /\ reqs[i].pc = "download" /\ reqs'[i].pc = "done"
  /\ ingestionHistory' # ingestionHistory

\* C12: when export_success for a connection c owned by u is handled,
\* Export(c) (and u's export of c) has status success with the download
\* reference, the monitor entry of c is completed with its timeout cleared,
\* and with credentials configured the download starts; when the download
\* succeeds with a payload of k valid resources, u's records grow by exactly
\* k records of c and u whose resource types are those of the valid lines in
\* payload order, and no other user's records change.
C12_ExportSuccessPostcondition ==
  /\ [][\A n \in 1..MaxDeliveries, c \in Conns, u \in Users :
          (/\ Arrives(n) /\ Accepted(n)' /\ reqs'[n].routed
           /\ reqs'[n].body.type = ExportSuccessType /\ reqs'[n].body.hasData
           /\ reqs'[n].body.conn = c /\ ExternalIdOf(c) = u)
            => /\ connectionExports'[c] = ExportSuccessData(n)
               /\ connectionExports'[c].status = "success"
               /\ connectionExports'[c].downloadLink = DownloadLink
               /\ userExports'[u][c] = connectionExports'[c]
               /\ connectionTimeouts'[c] # None
               /\ connectionTimeouts'[c].status = "completed"
               /\ connectionTimeouts'[c].timeoutId \notin timers'
               /\ configured => (reqs'[n].pc = "download" /\ reqs'[n].user = u)]_vars
  /\ [][\A i \in 1..MaxDeliveries :
          Ingests(i) =>
            \E payload \in AllPayloads :
              LET types == ValidResourceTypes(payload)
                  u == reqs[i].user
                  before == Len(foundryDataStore[u])
                  after == foundryDataStore'[u]
              IN /\ Len(after) = before + Len(types)
                 /\ SubSeq(after, 1, before) = foundryDataStore[u]
                 /\ \A k \in 1..Len(types) :
                      /\ after[before + k].resource_type = types[k]
                      /\ after[before + k].auth0_user_id = u
                      /\ after[before + k].org_connection_id = reqs[i].body.conn
                 /\ \A v \in Users \ {u} : foundryDataStore'[v] = foundryDataStore[v]
                 /\ Len(ingestionHistory') = Len(ingestionHistory) + 1
                 /\ ingestionHistory'[Len(ingestionHistory')].record_count = Len(types)]_vars

\* Two exports of c1 were ingested for u1: the payload of two Patient and
\* one Observation after the payload with a malformed and a blank line.
C12_Witness ==
  /\ Len(foundryDataStore["u1"]) = 5
  /\ [k \in 1..5 |-> foundryDataStore["u1"][k].resource_type]
       = <<"Patient", "Observation", "Patient", "Patient", "Observation">>
  /\ connectionExports["c1"] # None /\ connectionExports["c1"].status = "success"
  /\ connectionTimeouts["c1"] # None /\ connectionTimeouts["c1"].status = "completed"
  /\ \A i \in DOMAIN reqs : reqs[i].pc = "done"

\* C13 as stated: after authorization_revoked for a connection c owned by u
\* is handled, Connection(c) is in status revoked, Export(c) no longer
\* exists and u's connection index no longer contains c.
C13_RevokedPostcondition ==
  [][\A n \in 1..MaxDeliveries, c \in Conns, u \in Users :
       (/\ Arrives(n) /\ Accepted(n)' /\ reqs'[n].routed
        /\ reqs'[n].body.type = AuthorizationRevokedType /\ reqs'[n].body.hasData
        /\ reqs'[n].body.conn = c /\ ExternalIdOf(c) = u)
         => /\ Revoked(c)'
            /\ connectionExports'[c] = None
            /\ c \notin userConnections'[u]]_vars

\* C14: an export_success or export_failed event for a connection id with no
\* Connection stores an Export for that id with the status of the event
\* (success or failed); the step creates no Connection, changes no user
\* index, monitor entry, in-flight marker or record, starts no download (the
\* request ends in the same step), and no error is raised: the event is
\* acknowledged and archived as processed without error.
C14_ExportForUnknownConnection ==
  [][\A n \in 1..MaxDeliveries, c \in Conns :
       (/\ Arrives(n) /\ Accepted(n)' /\ reqs'[n].routed
        /\ reqs'[n].body.type \in {ExportSuccessType, ExportFailedType}
        /\ reqs'[n].body.hasData /\ reqs'[n].body.conn = c
        /\ connectionStatus[c] = NoObj)
         => /\ connectionExports'[c] # None
            /\ connectionExports'[c].timestamp = n
            /\ connectionExports'[c].status =
                 (IF reqs'[n].body.type = ExportSuccessType THEN "success" ELSE "failed")
            /\ UNCHANGED <<connectionStatus, heap, userConnections, userExports>>
            /\ UNCHANGED <<monitorVars, recordVars, triggerVars>>
            /\ reqs'[n].pc = "done" /\ reqs'[n].outcome = "returned"
            /\ reqs'[n].response = StatusOk
            /\ \A k \in DOMAIN webhookEvents' :
                 webhookEvents'[k].id = n
                   => webhookEvents'[k].processed /\ webhookEvents'[k].error = NoText]_vars

\* export_failed and then export_success were handled for c1, which has no
\* Connection: its Export is the success, and there is still no Connection.
C14_Witness ==
  /\ connectionStatus["c1"] = NoObj
  /\ connectionExports["c1"] # None /\ connectionExports["c1"].status = "success"
  /\ \E i, j \in DOMAIN reqs :
       /\ i < j /\ Accepted(i) /\ Accepted(j) /\ reqs[i].routed /\ reqs[j].routed
       /\ reqs[i].body.type = ExportFailedType /\ reqs[i].body.hasData
       /\ reqs[j].body.type = ExportSuccessType /\ reqs[j].pc = "done"
  /\ userExports["u1"]["c1"] = None

\* The timeouts pending for connection c.
PendingDeadlines(c) == {t \in timers : reqs[t].body.conn = c}

\* C15 as stated: handling authorization_revoked for c cancels every pending
\* deadline of c, and the monitor entry of a revoked connection never becomes
\* timed_out.
C15_RevokeCancelsDeadline ==
  /\ [][\A n \in 1..MaxDeliveries, c \in Conns :
          (/\ Arrives(n) /\ Accepted(n)' /\ reqs'[n].routed
           /\ reqs'[n].body.type = AuthorizationRevokedType /\ reqs'[n].body.hasData
           /\ reqs'[n].body.conn = c)
            => PendingDeadlines(c)' = {}]_vars
  /\ [][\A c \in Conns :
          (/\ Revoked(c) /\ connectionTimeouts[c] # None
           /\ connectionTimeouts[c].status # "timed_out")
            => connectionTimeouts'[c].status # "timed_out"]_vars

\* The resource types of the lines of a text that parse, in text order.
ExpectedTypes(text) ==
  LET lines == SplitLines(text, <<>>, <<>>)
      valid == SelectSeq(lines, LAMBDA line : ParseLine(line) # None)
  IN [k \in DOMAIN valid |-> ParseLine(valid[k]).resourceType]

Gets(key) == lastGet' # lastGet /\ lastGet'.key = key

\* C17 as stated: a get(key) at a time strictly before t + TTL, t the time
\* of the set, returns the value set, unchanged; a get(key) at any time from
\* t + TTL on, t + TTL included, is a miss.
C17_CacheTTL ==
  [][\A key \in CacheKeys :
       (Gets(key) /\ foundryCache[key] # None)
         => LET entry == foundryCache[key] IN
            /\ now < entry.timestamp + CacheTTL
                 => (lastGet'.hit /\ lastGet'.value = entry.value)
            /\ now >= entry.timestamp + CacheTTL => ~lastGet'.hit]_vars

\* C18 as stated: a read of all records returns the contents the record
\* store has at the time of the read, whatever was cached before; so a read
\* after an ingestion or a clear returns the contents after that mutation.
C18_ReadAfterMutationIsFresh ==
  [][lastRead' # lastRead
       => lastRead'.data = GetAllFoundryData(foundryDataStore)]_vars

\* Request i, an export_success, ends its download.
DownloadEnds(i) ==
  /\ i \in DOMAIN reqs
  /\ reqs[i].pc = "download" /\ reqs'[i].pc = "done"

\* C19: a download that ends either leaves the records of every user and the
\* ingestion history exactly as they were (it failed), or appends in that one
\* step a record for every valid line of its payload to the user's records
\* together with one history batch counting them (it succeeded); records and
\* history change in no other step; and an export_success handled without
\* credentials ends at once with records and history unchanged.
C19_NoPartialCommit ==
  /\ [][\A i \in 1..MaxDeliveries :
          DownloadEnds(i) =>
            \/ UNCHANGED recordVars
            \/ \E payload \in AllPayloads :
                 LET u == reqs[i].user
                     count == Len(ValidResourceTypes(payload))
                 IN /\ Len(foundryDataStore'[u]) = Len(foundryDataStore[u]) + count
                    /\ SubSeq(foundryDataStore'[u], 1, Len(foundryDataStore[u]))
                         = foundryDataStore[u]
                    /\ \A v \in Users \ {u} : foundryDataStore'[v] = foundryDataStore[v]
                    /\ Len(ingestionHistory') = Len(ingestionHistory) + 1
                    /\ SubSeq(ingestionHistory', 1, Len(ingestionHistory)) = ingestionHistory
                    /\ ingestionHistory'[Len(ingestionHistory')].record_count = count
                    /\ ingestionHistory'[Len(ingestionHistory')].external_id = u]_vars
  /\ [][recordVars' # recordVars => \E i \in 1..MaxDeliveries : DownloadEnds(i)]_vars
  /\ [][\A n \in 1..MaxDeliveries :
          (/\ Arrives(n) /\ Accepted(n)' /\ reqs'[n].routed
           /\ reqs'[n].body.type = ExportSuccessType /\ ~configured)
            => reqs'[n].pc = "done" /\ UNCHANGED recordVars]_vars

\* Two exports of u1's connection were downloaded: one download succeeded
\* with three records, the other failed and changed nothing.
C19_Witness ==
  /\ \E i, j \in DOMAIN reqs :
       /\ i < j /\ Accepted(i) /\ Accepted(j)
       /\ reqs[i].body.type = ExportSuccessType /\ reqs[j].body.type = ExportSuccessType
       /\ reqs[i].user = "u1" /\ reqs[j].user = "u1"
       /\ reqs[i].pc = "done" /\ reqs[j].pc = "done"
  /\ Len(ingestionHistory) = 1
  /\ ingestionHistory[1].record_count = 3
  /\ Len(foundryDataStore["u1"]) = 3

\* C20: a provider request sends its call again only after a response whose
\* status is in the transient set, and at most MaxRetries times: every call
\* but the last was answered with a transient status, a response with any
\* other failure status or a thrown fetch ends the request at that call, so a
\* request makes at most 1 + MaxRetries calls; and when every call returns,
\* the request ends, returning the response or throwing.
C20_BoundedRetry ==
  /\ [](/\ Len(fetchRun.calls) <= 1 + MaxRetries
        /\ fetchRun.attempt <= 1 + MaxRetries
        /\ \A k \in 1..(Len(fetchRun.calls) - 1) :
             fetchRun.calls[k] \in {408, 429, 500, 502, 503, 504}
        /\ \A k \in 1..Len(fetchRun.calls) :
             fetchRun.calls[k] \in {400, 401, 404, FetchThrew}
               => (k = Len(fetchRun.calls) /\ fetchRun.pc = "threw")
        /\ fetchRun.pc = "calling" => fetchRun.attempt = Len(fetchRun.calls) + 1
        /\ fetchRun.pc = "returned"
             => fetchRun.calls[Len(fetchRun.calls)] \in 200..299)
  /\ <>(fetchRun.pc \in {"returned", "threw"})

\* Four calls, each answered with a transient status: the retries are used
\* up and the request fails.
C20_Witness ==
  /\ fetchRun.pc = "threw"
  /\ Len(fetchRun.calls) = 1 + MaxRetries
  /\ \A k \in 1..Len(fetchRun.calls) : fetchRun.calls[k] \in RETRYABLE_STATUSES

\* C21 as stated: when the provider call of the trigger of a connection c
\* fails for good (a retryable answer to the last of the 1 + MaxRetries
\* calls, a non-retryable answer, or a fetch that throws), the connection
\* stored for c gets export status request_failed and the error message, and
\* the failure goes no further: the in-flight marker of c is removed, the
\* handler of the connection_success returns, the request is acknowledged
\* with success and its archived event is marked processed with no error.
C21_TriggerFailureContained ==
  [][\A i \in 1..MaxDeliveries, outcome \in ProviderOutcomes :
       TriggerFails(i, outcome)
         => LET stored == heap'[connectionStatus'[reqs[i].body.conn]] IN
            /\ outcome = "retryable" => reqs[i].attempt = 1 + MaxRetries
            /\ stored.exportStatus = "request_failed"
            /\ stored.exportError = ErrProvider
            /\ reqs[i].body.conn \notin pendingExportRequests'
            /\ reqs'[i].pc = "done" /\ reqs'[i].outcome = "returned"
            /\ reqs'[i].response = StatusOk
            /\ ArchivedOf(i)' # {}
            /\ \A k \in ArchivedOf(i)' :
                 webhookEvents'[k].processed /\ webhookEvents'[k].error = NoText]_vars

\* C22: a connection_success handled without provider credentials sends
\* nothing to the provider (its request never waits on a provider call),
\* raises nothing, sets no in-flight marker; and with or without credentials
\* the handler stores the same connection object for c, puts c in the index
\* of its user and starts the same monitor entry with its timeout scheduled.
C22_NotConfiguredSkipsTrigger ==
  [][\A n \in 1..MaxDeliveries :
       (/\ Arrives(n) /\ Accepted(n)' /\ reqs'[n].routed
        /\ reqs'[n].body.type = ConnectionSuccessType /\ reqs'[n].body.hasData)
         => LET body == reqs'[n].body IN
            /\ connectionStatus'[body.conn] = n
            /\ heap'[n] = ConnectionData(body, n)
            /\ body.user # NoUser => body.conn \in userConnections'[body.user]
            /\ connectionTimeouts'[body.conn] =
                 [timeoutId |-> n, startedAt |-> n, connectionData |-> n,
                  status |-> "monitoring", timedOutAt |-> NoTime]
            /\ n \in timers'
            /\ ~configured
                 => /\ reqs'[n].pc = "done" /\ reqs'[n].attempt = 0
                    /\ reqs'[n].outcome = "returned" /\ reqs'[n].response = StatusOk
                    /\ UNCHANGED pendingExportRequests
                    /\ \A k \in ArchivedOf(n)' :
                         webhookEvents'[k].processed /\ webhookEvents'[k].error = NoText]_vars

\* Without credentials a connection_success for c1 and u1 was handled: the
\* connection, the index entry and the monitor entry exist and nothing is in
\* flight.
C22_Witness ==
  \E i \in DOMAIN reqs :
    /\ ~configured /\ Accepted(i) /\ reqs[i].routed
    /\ reqs[i].body.type = ConnectionSuccessType
    /\ reqs[i].body.conn = "c1" /\ reqs[i].body.user = "u1"
    /\ reqs[i].pc = "done" /\ reqs[i].outcome = "returned"
    /\ ConnectedAfter(i, "c1", "u1")
    /\ pendingExportRequests = {}

\* The timeout that delivery t scheduled elapses: it leaves the pending
\* timeouts in a step in which no request arrives.
Elapses(t) == t \in timers /\ t \notin timers' /\ Len(reqs') = Len(reqs)

\* C23: when the timeout scheduled for connection c elapses, the monitor
\* entry of c becomes timed_out with the time, a health check of c is stored,
\* and nothing else changes: the monitor entries and health checks of other
\* connections, the connection objects, the exports, the user indexes, the
\* in-flight markers, the records and the requests stay as they are.
C23_TimeoutChangesMonitorOnly ==
  [][\A t \in 1..MaxDeliveries :
       Elapses(t)
         => LET c == reqs[t].body.conn IN
            /\ connectionTimeouts'[c] # None
            /\ connectionTimeouts'[c].status = "timed_out"
            /\ connectionTimeouts'[c].timedOutAt = t
            /\ connectionTimeouts'[c].startedAt = connectionTimeouts[c].startedAt
            /\ healthChecks'[c] # None
            /\ healthChecks'[c].status = "timeout_detected"
            /\ \A d \in Conns \ {c} :
                 /\ connectionTimeouts'[d] = connectionTimeouts[d]
                 /\ healthChecks'[d] = healthChecks[d]
            /\ UNCHANGED <<connectionStatus, heap, connectionExports, userConnections,
                           userExports, pendingExportRequests, foundryDataStore,
                           ingestionHistory, reqs, webhookEvents, processedEventIds>>]_vars

\* The timeout of c1 has elapsed while the export request of c1 is with the
\* provider: the monitor entry is timed_out, the health check is stored, and
\* the connection is still pending and in flight.
C23_Witness ==
  /\ connectionTimeouts["c1"] # None
  /\ connectionTimeouts["c1"].status = "timed_out"
  /\ healthChecks["c1"] # None
  /\ connectionStatus["c1"] # NoObj
  /\ heap[connectionStatus["c1"]].exportStatus = "pending"
  /\ "c1" \in pendingExportRequests

\* A step in which request n arrives and its handler calls
\* stopExportMonitoring for connection c.
Stops(n, c) ==
  /\ Arrives(n) /\ Accepted(n)' /\ reqs'[n].routed
  /\ reqs'[n].body.type \in {ExportSuccessType, ExportFailedType}
  /\ reqs'[n].body.hasData /\ reqs'[n].body.conn = c

\* C24: stopping the monitoring of a connection that was never started makes
\* no entry, clears no timeout and raises nothing; stopping it for an entry
\* that is already stopped leaves the entries and the pending timeouts as
\* they were; and in every state a second stop right after a stop changes
\* nothing more.
C24_StopIsIdempotent ==
  /\ [](\A c \in Conns :
          LET once == StopExportMonitoring(connectionTimeouts, c)
              left == ClearTimeoutOf(timers, connectionTimeouts, c)
          IN /\ StopExportMonitoring(once, c) = once
             /\ ClearTimeoutOf(left, once, c) = left)
  /\ [][\A n \in 1..MaxDeliveries, c \in Conns :
          Stops(n, c)
            => /\ reqs'[n].outcome # "raised"
               /\ connectionTimeouts[c] = None => UNCHANGED monitorVars
               /\ (connectionTimeouts[c] # None /\ connectionTimeouts[c].status = "completed")
                    => UNCHANGED monitorVars
               /\ connectionTimeouts[c] # None
                    => /\ connectionTimeouts'[c].status = "completed"
                       /\ connectionTimeouts[c].timeoutId \notin timers']_vars

\* The monitoring of c1 was started and then stopped by two export events, one
\* after the other.
C24_Witness ==
  /\ Len(reqs) = 3
  /\ \A i \in DOMAIN reqs : Accepted(i) /\ reqs[i].routed /\ reqs[i].body.conn = "c1"
  /\ reqs[1].body.type = ConnectionSuccessType
  /\ reqs[2].body.type = ExportFailedType
  /\ reqs[3].body.type = ExportFailedType
  /\ connectionTimeouts["c1"] # None
  /\ connectionTimeouts["c1"].status = "completed"
  /\ connectionTimeouts["c1"].timeoutId \notin timers

\* C25 as stated: when the monitoring of c is stopped after the timeout of c
\* has fired, the monitor entry of c stays as it is, timed_out, and getStats
\* reports the same counts after the stop as before it.
C25_StopAfterTimeoutIsNoOp ==
  [][\A n \in 1..MaxDeliveries, c \in Conns :
       (/\ Stops(n, c)
        /\ connectionTimeouts[c] # None
        /\ connectionTimeouts[c].status = "timed_out")
         => /\ connectionTimeouts'[c] = connectionTimeouts[c]
            /\ GetStats(connectionTimeouts, healthChecks)'
                 = GetStats(connectionTimeouts, healthChecks)]_vars

\* C26 as stated: a request whose handler waits for the provider export call
\* or for the bulk download has already been acknowledged: the success
\* response was sent before the wait, and the work ends after it.
C26_AckBeforeLongWork ==
  \A i \in DOMAIN reqs :
    (Accepted(i) /\ reqs[i].pc \in {"trigger", "download"})
      => reqs[i].response = StatusOk

\* The provider call of the trigger of request i ends, in success or failure.
TriggerEnds(i) == i \in DOMAIN reqs /\ reqs[i].pc = "trigger" /\ reqs'[i].pc = "done"

\* The export status of the connection stored for c.
ExportStatusOf(c) == heap[connectionStatus[c]].exportStatus

\* C27 as stated: when the trigger of a connection c ends after an
\* export_success or export_failed for c was handled, the export status of
\* the connection stored for c stays success or failed: the end of the
\* trigger does not move it back to a requested or request-failed status.
C27_ExportStatusMonotonic ==
  [][\A i \in 1..MaxDeliveries :
       (/\ TriggerEnds(i)
        /\ connectionStatus[reqs[i].body.conn] # NoObj
        /\ ExportStatusOf(reqs[i].body.conn) \in {"success", "failed"})
         => ExportStatusOf(reqs[i].body.conn)' = ExportStatusOf(reqs[i].body.conn)]_vars

\* C28 as stated: when the provider call of the trigger of a connection c
\* succeeds, the connection stored for c carries the status the provider
\* returned (requested when it returned none) and the task id it returned,
\* also when another connection_success for c was handled while the call was
\* with the provider.
C28_TriggerSuccessOnStoredConnection ==
  [][\A i \in 1..MaxDeliveries, outcome \in {"ok_task", "ok_empty"} :
       TriggerSucceeds(i, outcome)
         => LET stored == heap'[connectionStatus'[reqs[i].body.conn]] IN
            /\ stored.exportStatus = IF outcome = "ok_task" THEN ProviderStatus ELSE "requested"
            /\ stored.lastExportRequested = i
            /\ outcome = "ok_task" => stored.pendingTaskId = ProviderTask]_vars

\* C29 as stated: the archive of raw events never holds more than a fixed
\* number of events, whatever the number of deliveries: an event archived
\* into a full archive takes the place of the oldest one.  The bound here is
\* any capacity below the number of deliveries of a behaviour.
C29_ArchiveBounded == Len(webhookEvents) < MaxDeliveries

\* C30: the records of a user change only in two ways: a download of one of
\* the user's exports ends and appends to them, the records already stored
\* keeping their content and order; or the clear endpoint empties them, in a
\* step that touches no request, connection, export or monitor entry.  The
\* arrival of an event of any type, the end of a trigger and an export timeout
\* leave the records of every user as they are.
C30_RecordsAppendOrClear ==
  /\ [][\A u \in Users :
          foundryDataStore'[u] # foundryDataStore[u]
            => \/ /\ \E i \in 1..MaxDeliveries : DownloadEnds(i) /\ reqs[i].user = u
                  /\ Len(foundryDataStore'[u]) > Len(foundryDataStore[u])
                  /\ SubSeq(foundryDataStore'[u], 1, Len(foundryDataStore[u]))
                       = foundryDataStore[u]
               \/ /\ foundryDataStore'[u] = <<>>
                  /\ UNCHANGED <<reqs, webhookEvents, processedEventIds, registryVars,
                                 monitorVars, triggerVars>>]_vars
  /\ [][\A n \in 1..MaxDeliveries :
          (Arrives(n) \/ TriggerEnds(n) \/ Elapses(n)) => UNCHANGED foundryDataStore]_vars

\* u1's export was ingested and then the connection was revoked: the two
\* records are still stored, in order.
C30_Witness ==
  /\ Len(reqs) = 3
  /\ \A i \in DOMAIN reqs : Accepted(i) /\ reqs[i].pc = "done"
  /\ reqs[2].body.type = ExportSuccessType
  /\ reqs[3].body.type = AuthorizationRevokedType
  /\ Len(foundryDataStore["u1"]) = 2
  /\ foundryDataStore["u1"][1].resource_type = "Patient"
  /\ foundryDataStore["u1"][2].resource_type = "Observation"
  /\ foundryDataStore["u1"][1].ingested_at = 2

\* The export events about connection c that reached their handler.
ExportEventsOf(c) ==
  {i \in DOMAIN reqs :
     /\ Accepted(i) /\ reqs[i].routed /\ reqs[i].body.hasData
     /\ reqs[i].body.type \in {ExportSuccessType, ExportFailedType}
     /\ reqs[i].body.conn = c}

\* The last of them.
LastExportEventOf(c) ==
  CHOOSE i \in ExportEventsOf(c) : \A j \in ExportEventsOf(c) : j <= i

C32_DownloadFailureContained ==
  /\ [][\A i \in 1..MaxDeliveries :
          DownloadFails(i)
            => /\ reqs'[i].pc = "done" /\ reqs'[i].outcome = "returned"
               /\ reqs'[i].response = StatusOk
               /\ ArchivedOf(i)' # {}
               /\ \A k \in ArchivedOf(i)' :
                    webhookEvents'[k].processed /\ webhookEvents'[k].error = NoText
               /\ UNCHANGED <<connectionExports, connectionStatus, heap, userExports,
                              foundryDataStore, ingestionHistory>>]_vars
  /\ [][\A n \in 1..MaxDeliveries :
          (/\ Arrives(n) /\ Accepted(n)' /\ reqs'[n].routed
           /\ reqs'[n].body.type = ExportSuccessType /\ reqs'[n].body.hasData)
            => LET c == reqs'[n].body.conn IN
               /\ connectionExports'[c].status = "success"
               /\ connectionStatus'[c] # NoObj
                    => heap'[connectionStatus'[c]].exportStatus = "success"
               /\ reqs'[n].pc \in {"download", "done"}
               /\ reqs'[n].pc = "done"
                    => /\ reqs'[n].outcome = "returned" /\ reqs'[n].response = StatusOk
                       /\ UNCHANGED recordVars]_vars

\* The download of c1's export was tried and failed: the request is answered
\* and processed, export and connection are in status success, nothing is
\* stored.
C32_Witness ==
  \E i \in DOMAIN reqs :
    /\ configured /\ Accepted(i) /\ reqs[i].routed
    /\ reqs[i].body.type = ExportSuccessType /\ reqs[i].user = "u1"
    /\ reqs[i].pc = "done" /\ reqs[i].outcome = "returned" /\ reqs[i].response = StatusOk
    /\ connectionExports["c1"] # None /\ connectionExports["c1"].status = "success"
    /\ connectionStatus["c1"] # NoObj /\ ExportStatusOf("c1") = "success"
    /\ foundryDataStore["u1"] = <<>> /\ ingestionHistory = <<>>

\* C33 as stated: a connection has at most one timeout that is scheduled and
\* neither cleared nor fired; starting the monitoring of a connection whose
\* timeout is pending does not leave the earlier timeout pending.
C33_OnePendingDeadline ==
  \A c \in Conns : Cardinality(PendingDeadlines(c)) <= 1

\* C34 as stated: a monitor entry that an export_success or export_failed has
\* stopped (status completed) does not become timed_out; it leaves completed
\* only when the monitoring of the connection is started again.
C34_StoppedNeverTimesOut ==
  [][\A c \in Conns :
       (connectionTimeouts[c] # None /\ connectionTimeouts[c].status = "completed")
         => connectionTimeouts'[c].status # "timed_out"]_vars

C36_ConnectionIndexAgrees ==
  \A u \in Users : \A c \in userConnections[u] :
    /\ connectionStatus[c] # NoObj
    /\ heap[connectionStatus[c]].externalId = u
    /\ ~Revoked(c)

\* The authorization_revoked events about connection c that reached their
\* handler.
RevokesOf(c) ==
  {i \in DOMAIN reqs :
     /\ Accepted(i) /\ reqs[i].routed /\ reqs[i].body.hasData
     /\ reqs[i].body.type = AuthorizationRevokedType /\ reqs[i].body.conn = c}

\* C37 as stated: an entry for connection c in the export index of a user is
\* the export record stored for c, which exists; and once an
\* authorization_revoked for c was handled, the export index of no user has
\* an entry for c.
C37_ExportIndexAgrees ==
  \A u \in Users, c \in Conns :
    userExports[u][c] # None
      => /\ connectionExports[c] # None
         /\ userExports[u][c] = connectionExports[c]
         /\ RevokesOf(c) = {}

\* Delivery j is a redelivery of delivery i, whose handler raised.
RedeliveryOfRaised(i, j) ==
  /\ i < j /\ Accepted(i) /\ Accepted(j)
  /\ reqs[i].routed /\ reqs[i].outcome = "raised"
  /\ reqs[i].body.id # NoId /\ reqs[j].body.id = reqs[i].body.id

\* C38: the mark of an event id survives an error of the handler: a redelivery
\* of an event whose handler raised reaches no handler, is answered 200 and
\* is archived as processed with no error, while the first delivery is
\* archived with its error and not processed.
C38_MarkSurvivesHandlerError ==
  \A i, j \in DOMAIN reqs :
    RedeliveryOfRaised(i, j)
      => /\ reqs[i].body.id \in processedEventIds
         /\ ~reqs[j].routed /\ reqs[j].pc = "done" /\ reqs[j].outcome = "returned"
         /\ reqs[j].response = StatusOk
         /\ \A k \in ArchivedOf(j) :
              webhookEvents[k].processed /\ webhookEvents[k].error = NoText
         /\ \A k \in ArchivedOf(i) :
              ~webhookEvents[k].processed /\ webhookEvents[k].error # NoText

C38_Witness ==
  \E i, j \in DOMAIN reqs :
    /\ RedeliveryOfRaised(i, j)
    /\ ArchivedOf(i) # {} /\ ArchivedOf(j) # {}

\* A step of the handling of an event about connection c: the event arrives,
\* or its handler goes on after the provider or the download answered.
ActsOn(c) ==
  \/ \E n \in 1..MaxDeliveries :
       Arrives(n) /\ Accepted(n)' /\ reqs'[n].body.conn = c
  \/ /\ Len(reqs') = Len(reqs)
     /\ \E i \in DOMAIN reqs : reqs'[i] # reqs[i] /\ reqs[i].body.conn = c

\* The users that own the stored connection of c before or after the step.
OwnersIn(c) ==
  {u \in Users :
     \/ connectionStatus[c] # NoObj /\ heap[connectionStatus[c]].externalId = u
     \/ connectionStatus'[c] # NoObj /\ heap'[connectionStatus'[c]].externalId = u}

\* C39: a step of the handling of an event about connection c changes
\* neither the stored connection, the export record, the monitor entry nor
\* the in-flight marker of any other connection, and changes the connection
\* index and the export index of no user but the owner of c.
C39_OtherConnectionsUntouched ==
  [][\A c \in Conns :
       ActsOn(c) =>
         /\ \A d \in Conns \ {c} :
              /\ connectionStatus'[d] = connectionStatus[d]
              /\ connectionStatus[d] # NoObj
                   => heap'[connectionStatus[d]] = heap[connectionStatus[d]]
              /\ connectionExports'[d] = connectionExports[d]
              /\ connectionTimeouts'[d] = connectionTimeouts[d]
              /\ (d \in pendingExportRequests') = (d \in pendingExportRequests)
         /\ \A u \in Users \ OwnersIn(c) :
              /\ userConnections'[u] = userConnections[u]
              /\ userExports'[u] = userExports[u]]_vars

\* c1 of u1 was revoked after c2 of u2 was made, and c2 is still indexed.
C39_Witness ==
  /\ Revoked("c1") /\ connectionStatus["c2"] # NoObj
  /\ heap[connectionStatus["c1"]].externalId = "u1"
  /\ heap[connectionStatus["c2"]].externalId = "u2"
  /\ heap[connectionStatus["c1"]].revokedAt > connectionStatus["c2"]
  /\ "c2" \in userConnections["u2"] /\ ~Revoked("c2")

\* C40: when the provider call of a trigger of connection c ends, whatever
\* its outcome, c is no longer marked in flight; so while no trigger waits
\* for the provider no connection is marked, and a connection_success for c
\* that arrives then, with credentials set, sends the provider a new export
\* request and marks c.
C40_MarkerReleased ==
  /\ []((\A i \in DOMAIN reqs : reqs[i].pc # "trigger") => pendingExportRequests = {})
  /\ [][\A i \in 1..MaxDeliveries :
          TriggerEnds(i) => reqs[i].body.conn \notin pendingExportRequests']_vars
  /\ [][\A n \in 1..MaxDeliveries :
          (/\ Arrives(n) /\ Accepted(n)' /\ reqs'[n].routed
           /\ reqs'[n].body.type = ConnectionSuccessType /\ reqs'[n].body.hasData
           /\ configured
           /\ TriggersInFlight(reqs'[n].body.conn) = {})
            => /\ reqs'[n].pc = "trigger" /\ reqs'[n].attempt = 1
               /\ reqs'[n].body.conn \in pendingExportRequests']_vars

\* The trigger of a first connection_success for c1 ended in a failure, and
\* the trigger of a second one has sent the provider more than MaxRetries
\* calls and waits for the answer, with c1 marked.
C40_Witness ==
  \E i, j \in DOMAIN reqs :
    /\ i < j /\ Accepted(i) /\ Accepted(j)
    /\ reqs[i].body.conn = "c1" /\ reqs[j].body.conn = "c1"
    /\ reqs[i].pc = "done" /\ reqs[i].data # NoObj
    /\ heap[reqs[i].data].exportStatus = "request_failed"
    /\ reqs[j].pc = "trigger" /\ reqs[j].attempt > MaxRetries
    /\ pendingExportRequests = {"c1"}

====
